---- MODULE Spec2Model ----
(***************************************************************************)
(* Verification model of the message-ingestion core of agentle's WhatsApp  *)
(* bot: the per-user session (rate-limit admission, batching decision),    *)
(* the batch coordinator of WhatsAppBot, and the resilience primitives     *)
(* (CircuitBreaker, RateLimiter).                                          *)
(*                                                                         *)
(* The module holds several specifications over disjoint variable groups:  *)
(*   SpecRate    WhatsAppSession.update_rate_limiting driven by a clock    *)
(*   SpecDecide  WhatsAppSession.should_process_batch on drawn inputs      *)
(*   SpecCB      CircuitBreaker.call / _on_success / _on_failure           *)
(*   SpecBot     WhatsAppBot started: handle_message and _batch_processor  *)
(*               on three messages (text or media), no call failing        *)
(*   SpecService SpecBot on two messages from construction on, with        *)
(*               start_async, stop_async and failing calls in the task     *)
(*   SpecHandle  SpecBot on two messages with a welcome_message, a failing *)
(*               session store in the batching path and the fallback to    *)
(*               immediate processing                                      *)
(*   SpecLimiter RateLimiter.acquire with concurrent callers               *)
(*   SpecDrain   WhatsAppSession add_pending_message/clear_pending_messages *)
(*   SpecConvert WhatsAppBot._convert_message_batch_to_input in a flush    *)
(* Each specification leaves the other groups at their idle values.        *)
(***************************************************************************)
EXTENDS Integers, Sequences, FiniteSets, TLC

\* Python's None for the nullable timestamps (all real times are >= 0).
None == -1

(***************************************************************************)
(* Time.  A datetime is a number of ticks; SubSecond ticks make a second,  *)
(* so that a datetime has a seconds field and a sub-second (microsecond)   *)
(* part, as datetime.now() has.                                            *)
(***************************************************************************)
SubSecond == 2
SecondsPerMinute == 60
MaxSecondField == 59

\* datetime.second
SecondOf(t) == (t \div SubSecond) % SecondsPerMinute

\* datetime.replace(second=sec, microsecond=0) for a valid seconds field
ReplaceSecond(t, sec) ==
    (t \div (SecondsPerMinute * SubSecond)) * (SecondsPerMinute * SubSecond)
        + sec * SubSecond

\* (a - b).total_seconds() >= secs, on ticks
SecondsElapsedAtLeast(a, b, secs) == a - b >= secs * SubSecond

(***************************************************************************)
(* Variables                                                               *)
(***************************************************************************)
VARIABLES
    \* --- SpecRate: one WhatsAppSession object and the wall clock
    rl_clock,       \* datetime.now(), in ticks
    rl_session,     \* the rate-limit fields of the session
    rl_max,         \* config.max_messages_per_minute
    rl_cooldown,    \* config.rate_limit_cooldown_seconds
    rl_ret,         \* outcome of the latest update_rate_limiting call
    rl_pre,         \* the session as it was when the latest call began
    rl_now,         \* the clock of the latest call
    rl_ordinal,     \* history: position of the latest call in its 60 s window
    rl_winStart,    \* history: when that window began
    rl_trigger,     \* history: when the limit was last triggered
    \* --- SpecDecide: inputs and result of should_process_batch
    d_session,
    d_now,
    d_delay,
    d_ret,
    \* --- SpecCB: one CircuitBreaker and its concurrent callers
    cb_clock,
    cb_state,
    failure_count,
    success_count,
    last_failure_time,
    cb_cfg,
    cb_pc,
    cb_entry,
    cb_run,
    cb_invocations,
    cb_half,        \* history of the current HALF_OPEN episode, read by the claims
    \* --- SpecLimiter: one RateLimiter and its concurrent callers
    lim_clock,      \* time.time()
    calls,          \* RateLimiter.calls
    lim_lock,       \* holder of RateLimiter._lock
    lim_cfg,        \* rate_limit_calls, rate_limit_period
    lim_pc,         \* where each acquire() call stands
    lim_wake,       \* when its asyncio.sleep ends
    lim_started,    \* acquire() calls made so far
    lim_returned,   \* history: the times at which acquire() calls returned
    \* --- SpecDrain: the pending queue of one WhatsAppSession object
    dr_session,     \* the session
    dr_added,       \* history: the messages added, in order
    dr_drained,     \* history: the messages the drains returned, in order
    dr_last,        \* what the latest clear_pending_messages returned
    dr_op,          \* the latest operation
    \* --- SpecBot: WhatsAppBot, one user, the session store, the handlers of
    \*     concurrent handle_message calls and the background tasks
    b_clock,        \* datetime.now(), in poll intervals
    store,          \* the provider's session of the user
    running,        \* WhatsAppBot._running
    registry,       \* WhatsAppBot._batch_processors[phone_number], or NoTask
    lock,           \* WhatsAppBot._processing_locks[phone_number] and the
                    \* asyncio.Lock objects the handlers hold or await
    nextMsg,        \* id of the next inbound message
    faults,         \* provider and agent failures so far
    config,         \* WhatsAppBot.config
    h_pc,           \* where each handle_message call stands
    h_msg,          \* its message
    h_session,      \* its `session` object
    t_pc,           \* where each _batch_processor task stands
    t_session,      \* its `session` object
    t_batch,        \* its drained `pending_messages`
    t_cancel,       \* Task.cancel() was called and not yet delivered
    t_wake,         \* when its asyncio.sleep ends
    t_i,            \* position of its conversion loop at a download, or 0
    s_pc,           \* where stop_async stands
    s_task,         \* the task stop_async awaits
    s_dirty,        \* _batch_processors lost or gained a key during the loop
    s_calls,        \* stop_async calls so far
    \* history of the run, read by the claims only
    appended,       \* messages add_pending_message has queued
    handed,         \* messages handed to the agent
    noticed,        \* messages answered with the error message
    t_raised,       \* an Exception was raised in the task's loop or flush
    t_cancelled,    \* a CancelledError was delivered to the task
    t_exitIdle,     \* the stored session was idle when the task ended
    g_batchStart,   \* when start_batch_processing was last called
    g_flushed,      \* a flush was triggered since
    g_burst,        \* when each message was queued; flushes triggered; the
                    \* messages that arrived during a flush; a message
                    \* arrived while the bot was not running
    inbound,        \* how many messages the webhook server delivers
    g_media,        \* the inbound messages that are media messages
    g_inbound,      \* history of handle_message: welcome messages sent, messages
                    \* whose batching path raised, messages taken up by
                    \* _process_single_message, messages whose fallback
                    \* raised, messages whose exception reached line 174
    \* --- SpecConvert: one drained batch on its way to the agent
    cv_batch,       \* the drained `pending_messages` (stored message records)
    cv_i,           \* position of the conversion loop
    cv_parts,       \* the `parts` built so far
    cv_pc           \* where the flush stands

rateVars == <<rl_clock, rl_session, rl_max, rl_cooldown, rl_ret, rl_pre, rl_now,
              rl_ordinal, rl_winStart, rl_trigger>>
decVars == <<d_session, d_now, d_delay, d_ret>>
cbVars == <<cb_clock, cb_state, failure_count, success_count, last_failure_time,
            cb_cfg, cb_pc, cb_entry, cb_run, cb_invocations, cb_half>>
limVars == <<lim_clock, calls, lim_lock, lim_cfg, lim_pc, lim_wake, lim_started,
             lim_returned>>
drainVars == <<dr_session, dr_added, dr_drained, dr_last, dr_op>>
botVars == <<b_clock, store, running, registry, lock, nextMsg, faults, config,
             h_pc, h_msg, h_session,
             t_pc, t_session, t_batch, t_cancel, t_wake, t_i,
             s_pc, s_task, s_dirty, s_calls,
             appended, handed, noticed, t_raised, t_cancelled, t_exitIdle,
             g_batchStart, g_flushed, g_burst, inbound, g_media, g_inbound>>
convVars == <<cv_batch, cv_i, cv_parts, cv_pc>>
vars == <<rateVars, decVars, cbVars, botVars, limVars, drainVars, convVars>>

(***************************************************************************)
(* WhatsAppSession: rate-limit admission                                   *)
(***************************************************************************)
\* Field defaults of a new session (the spam-protection fields).
NewRateSession ==
    [ is_rate_limited |-> FALSE,
      rate_limit_until |-> None,
      messages_in_current_minute |-> 0,
      current_minute_start |-> None,
      last_message_at |-> None ]

\* Bounds of the rate-limit model.
MaxPerMinute == 2
MaxSeconds == 100
\* config.rate_limit_cooldown_seconds: a short cooldown and the default.
DefaultCooldown == 60
Cooldowns == {20, DefaultCooldown}
\* How far the clock may move between two calls: by one tick off a whole
\* second, or on to a whole second some seconds later.
JumpSeconds == {20, 45}

\* Lines 111-123: the expiry check at the head of update_rate_limiting.
ExpireRateLimit(s, now) ==
    IF s.is_rate_limited /\ s.rate_limit_until # None /\ now >= s.rate_limit_until
    THEN [s EXCEPT !.is_rate_limited = FALSE,
                   !.rate_limit_until = None,
                   !.messages_in_current_minute = 0,
                   !.current_minute_start = None]
    ELSE s

\* Lines 132-141: the minute window is reset when absent or 60 s old.
ResetWindow(s, now) ==
    IF s.current_minute_start = None
       \/ SecondsElapsedAtLeast(now, s.current_minute_start, SecondsPerMinute)
    THEN [s EXCEPT !.current_minute_start = now,
                   !.messages_in_current_minute = 0]
    ELSE s

\* A variant that compares with >= where the source compares with >.
TriggersLimitAtThreshold(count, max) == count >= max

\* Line 151: the threshold comparison.
TriggersLimit(count, max) == count > max

\* Lines 156-160: is_rate_limited is set first; then now.replace(second=
\* now.second + cooldown_seconds, microsecond=0) raises ValueError when the
\* seconds field leaves 0..59, and the assignment of rate_limit_until and the
\* return are not reached.
TriggerRateLimit(s, now, cooldown) ==
    LET limited == [s EXCEPT !.is_rate_limited = TRUE]
        sec == SecondOf(now) + cooldown
    IN IF sec > MaxSecondField
       THEN [session |-> limited, ret |-> "ValueError"]
       ELSE [session |-> [limited EXCEPT !.rate_limit_until = ReplaceSecond(now, sec)],
             ret |-> "False"]

\* WhatsAppSession.update_rate_limiting: the session after the call and what
\* the call did ("True", "False", or the exception it raised).
update_rate_limiting(s, now, max, cooldown) ==
    LET s1 == ExpireRateLimit(s, now)
    IN IF s1.is_rate_limited
       THEN [session |-> s1, ret |-> "False"]
       ELSE LET s2 == ResetWindow(s1, now)
                s3 == [s2 EXCEPT !.messages_in_current_minute = @ + 1]
            IN IF TriggersLimit(s3.messages_in_current_minute, max)
               THEN TriggerRateLimit(s3, now, cooldown)
               ELSE [session |-> [s3 EXCEPT !.last_message_at = now], ret |-> "True"]

\* handle_message lines 147-156 and 174: where the call of
\* update_rate_limiting sends the message.
handle_message_path(ret) ==
    CASE ret = "True" -> "continue_158"
      [] ret = "False" -> "rejected_152"
      [] ret = "ValueError" -> "except_174"
      [] OTHER -> "none"

RateInit ==
    /\ rl_clock = 0
    /\ rl_session = NewRateSession
    /\ rl_max \in 1..MaxPerMinute
    /\ rl_cooldown \in Cooldowns
    /\ rl_ret = "none"
    /\ rl_pre = NewRateSession
    /\ rl_now = 0
    /\ rl_ordinal = 0
    /\ rl_winStart = None
    /\ rl_trigger = None

RateIdle ==
    /\ rl_clock = 0
    /\ rl_session = NewRateSession
    /\ rl_max = 1
    /\ rl_cooldown = DefaultCooldown
    /\ rl_ret = "none"
    /\ rl_pre = NewRateSession
    /\ rl_now = 0
    /\ rl_ordinal = 0
    /\ rl_winStart = None
    /\ rl_trigger = None


\* handle_message lines 147-150: one call of update_rate_limiting on the
\* session, at the current clock.
RateCall ==
    LET r == update_rate_limiting(rl_session, rl_clock, rl_max, rl_cooldown)
        fresh == \/ rl_session.is_rate_limited
                 \/ rl_winStart = None
                 \/ SecondsElapsedAtLeast(rl_clock, rl_winStart, SecondsPerMinute)
    IN /\ rl_session' = r.session
       /\ rl_ret' = r.ret
       /\ rl_pre' = rl_session
       /\ rl_now' = rl_clock
       /\ rl_winStart' = IF fresh THEN rl_clock ELSE rl_winStart
       /\ rl_ordinal' = IF fresh THEN 1 ELSE rl_ordinal + 1
       /\ rl_trigger' = IF r.session.is_rate_limited /\ ~rl_session.is_rate_limited
                        THEN rl_clock ELSE rl_trigger
       /\ UNCHANGED <<rl_clock, rl_max, rl_cooldown>>
       /\ UNCHANGED <<decVars, cbVars, botVars, limVars, drainVars, convVars>>

\* Time passes between two messages.
RateTick ==
    /\ \/ /\ rl_clock % SubSecond = 0
          /\ rl_clock' = rl_clock + 1
       \/ \E d \in JumpSeconds :
             /\ (rl_clock \div SubSecond) + d <= MaxSeconds
             /\ rl_clock' = ((rl_clock \div SubSecond) + d) * SubSecond
    /\ UNCHANGED <<rl_session, rl_max, rl_cooldown, rl_ret, rl_pre, rl_now,
                   rl_ordinal, rl_winStart, rl_trigger>>
    /\ UNCHANGED <<decVars, cbVars, botVars, limVars, drainVars, convVars>>

(***************************************************************************)
(* WhatsAppSession: batching decision                                      *)
(***************************************************************************)
\* Bounds of the decision model: queue length, clock range, delay range.
MaxPending == 2
MaxDecTime == 4
MaxDelay == 3

PendingOfLen(n) == [i \in 1..n |-> i]

\* A variant that flushes on the quiet period only, ignoring the deadline.
should_process_batch_no_deadline(s, now, batch_delay_seconds, max_wait_seconds) ==
    IF Len(s.pending_messages) = 0
    THEN FALSE
    ELSE IF s.last_activity # None
         THEN now - s.last_activity >= batch_delay_seconds
         ELSE FALSE

\* WhatsAppSession.should_process_batch (max_wait_seconds is accepted and
\* not read, as in the source).
should_process_batch(s, now, batch_delay_seconds, max_wait_seconds) ==
    IF Len(s.pending_messages) = 0
    THEN FALSE
    ELSE IF s.batch_processing_timeout_at # None
            /\ now >= s.batch_processing_timeout_at
         THEN TRUE
         ELSE IF s.last_activity # None
              THEN now - s.last_activity >= batch_delay_seconds
              ELSE FALSE

DecideInit ==
    /\ d_session \in [ pending_messages : {PendingOfLen(n) : n \in 0..MaxPending},
                       last_activity : 0..MaxDecTime,
                       batch_processing_timeout_at : {None} \cup 0..MaxDecTime ]
    /\ d_now \in 0..MaxDecTime
    /\ d_delay \in 0..MaxDelay
    /\ d_ret = "none"

DecideIdle ==
    /\ d_session = [ pending_messages |-> <<>>, last_activity |-> 0,
                     batch_processing_timeout_at |-> None ]
    /\ d_now = 0
    /\ d_delay = 0
    /\ d_ret = "none"

\* _batch_processor lines 248-251: the poll evaluates the decision.
Decide ==
    /\ d_ret = "none"
    /\ d_ret' = IF should_process_batch(d_session, d_now, d_delay, 0)
                THEN "True" ELSE "False"
    /\ UNCHANGED <<d_session, d_now, d_delay>>
    /\ UNCHANGED <<rateVars, cbVars, botVars, limVars, drainVars, convVars>>

(***************************************************************************)
(* CircuitBreaker                                                          *)
(***************************************************************************)
\* Bounds of the breaker model.
MaxThreshold == 2
MaxRecovery == 2
MaxCbClock == 5
MaxFailureCount == 4
Callers == {"c1", "c2"}

\* A variant that closes only above the threshold.
ClosesAboveThreshold(count, threshold) == count > threshold

\* _on_success line 56: the HALF_OPEN breaker closes at the threshold.
ClosesAtThreshold(count, threshold) == count >= threshold

\* A variant that opens only above the threshold.
OpensAboveThreshold(count, threshold) == count > threshold

\* _on_failure line 73: the CLOSED breaker opens at the threshold.
OpensAtThreshold(count, threshold) == count >= threshold

\* call lines 30-40, under the lock: "reject" raises CircuitBreakerError,
\* "trial" moves to HALF_OPEN and proceeds, "pass" proceeds.  A
\* last_failure_time of None or 0.0 is falsy and skips the check.
Admission(state, lft, now, recovery_timeout) ==
    IF state = "OPEN"
    THEN IF lft # None /\ lft # 0
         THEN IF now - lft >= recovery_timeout THEN "trial" ELSE "reject"
         ELSE "pass"
    ELSE "pass"

CbInit ==
    /\ cb_clock = 1
    /\ cb_state = "CLOSED"
    /\ failure_count = 0
    /\ success_count = 0
    /\ last_failure_time = None
    /\ cb_cfg \in [ failure_threshold : 1..MaxThreshold,
                    recovery_timeout : 1..MaxRecovery,
                    success_threshold : 1..MaxThreshold ]
    /\ cb_pc = [c \in Callers |-> "idle"]
    /\ cb_entry = [c \in Callers |-> [tooEarly |-> FALSE, outcome |-> "none"]]
    /\ cb_run = 0
    /\ cb_invocations = 0
    /\ cb_half = [trials |-> 0, successes |-> 0, failure_count |-> 0, discarded |-> 0]

CbIdle ==
    /\ cb_clock = 1
    /\ cb_state = "CLOSED"
    /\ failure_count = 0
    /\ success_count = 0
    /\ last_failure_time = None
    /\ cb_cfg = [ failure_threshold |-> 1, recovery_timeout |-> 1,
                  success_threshold |-> 1 ]
    /\ cb_pc = [c \in Callers |-> "idle"]
    /\ cb_entry = [c \in Callers |-> [tooEarly |-> FALSE, outcome |-> "none"]]
    /\ cb_run = 0
    /\ cb_invocations = 0
    /\ cb_half = [trials |-> 0, successes |-> 0, failure_count |-> 0, discarded |-> 0]

\* call lines 26-44: the admission check under the lock and, unless it
\* raises, the start of the wrapped operation.  cb_entry records what the
\* call found and did; cb_invocations counts the operations started;
\* cb_half.trials counts the operations started in HALF_OPEN since the
\* breaker entered it or last recorded a result, and cb_half.failure_count
\* keeps the failure_count the episode began with.
CbCall(c) ==
    /\ cb_pc[c] = "idle"
    /\ cb_invocations < MaxFailureCount + MaxCbClock
    /\ LET a == Admission(cb_state, last_failure_time, cb_clock, cb_cfg.recovery_timeout)
           tooEarly == /\ cb_state = "OPEN"
                       /\ last_failure_time # None
                       /\ cb_clock - last_failure_time < cb_cfg.recovery_timeout
       IN /\ cb_state' = IF a = "trial" THEN "HALF_OPEN" ELSE cb_state
          /\ success_count' = IF a = "trial" THEN 0 ELSE success_count
          /\ cb_pc' = [cb_pc EXCEPT ![c] = IF a = "reject" THEN "idle" ELSE "running"]
          /\ cb_invocations' = IF a = "reject" THEN cb_invocations ELSE cb_invocations + 1
          /\ cb_entry' = [cb_entry EXCEPT ![c] =
                            [ tooEarly |-> tooEarly,
                              outcome |-> IF a = "reject" THEN "CircuitBreakerError"
                                          ELSE "invoked" ]]
          /\ cb_half' = IF a = "trial"
                        THEN [cb_half EXCEPT !.trials = 1, !.successes = 0,
                                             !.failure_count = failure_count]
                        ELSE IF cb_state = "HALF_OPEN"
                             THEN [cb_half EXCEPT !.trials = @ + 1]
                             ELSE cb_half
    /\ UNCHANGED <<cb_clock, failure_count, last_failure_time, cb_cfg, cb_run>>
    /\ UNCHANGED <<rateVars, decVars, botVars, limVars, drainVars, convVars>>

\* call lines 44-46 and _on_success: the operation returns.  cb_half.successes
\* counts the successes recorded in HALF_OPEN in a row.
CbSucceed(c) ==
    /\ cb_pc[c] = "running"
    /\ cb_pc' = [cb_pc EXCEPT ![c] = "idle"]
    /\ IF cb_state = "HALF_OPEN"
       THEN /\ success_count' = success_count + 1
            /\ IF ClosesAtThreshold(success_count + 1, cb_cfg.success_threshold)
               THEN cb_state' = "CLOSED" /\ failure_count' = 0
               ELSE UNCHANGED <<cb_state, failure_count>>
       ELSE IF cb_state = "CLOSED"
            THEN failure_count' = 0 /\ UNCHANGED <<cb_state, success_count>>
            ELSE UNCHANGED <<cb_state, failure_count, success_count>>
    /\ cb_run' = IF cb_state = "OPEN" THEN cb_run ELSE 0
    /\ cb_half' = [cb_half EXCEPT
                      !.trials = 0,
                      !.successes = IF cb_state = "HALF_OPEN" THEN @ + 1 ELSE @]
    /\ UNCHANGED <<cb_clock, last_failure_time, cb_cfg, cb_entry, cb_invocations>>
    /\ UNCHANGED <<rateVars, decVars, botVars, limVars, drainVars, convVars>>

\* A variant in which a failure reopens only a CLOSED breaker.
StateOnFailureClosedOnly(state, count, threshold) ==
    IF state = "CLOSED" /\ OpensAtThreshold(count, threshold) THEN "OPEN" ELSE state

\* _on_failure lines 68-74: the state after a failure was counted.
StateOnFailure(state, count, threshold) ==
    IF state = "HALF_OPEN"
    THEN "OPEN"
    ELSE IF state = "CLOSED" /\ OpensAtThreshold(count, threshold)
         THEN "OPEN"
         ELSE state

\* call lines 47-49 and _on_failure: the operation raises.  cb_run counts the
\* failures recorded in a row while CLOSED; cb_half.discarded keeps the
\* successes that had been recorded in HALF_OPEN when a failure reopened the
\* breaker.
CbFail(c) ==
    /\ cb_pc[c] = "running"
    /\ failure_count < MaxFailureCount
    /\ cb_pc' = [cb_pc EXCEPT ![c] = "idle"]
    /\ failure_count' = failure_count + 1
    /\ last_failure_time' = cb_clock
    /\ cb_state' = StateOnFailure(cb_state, failure_count + 1, cb_cfg.failure_threshold)
    /\ cb_run' = IF cb_state = "CLOSED" THEN cb_run + 1 ELSE cb_run
    /\ cb_half' = [cb_half EXCEPT
                      !.trials = 0,
                      !.successes = 0,
                      !.discarded = IF cb_state = "HALF_OPEN" THEN cb_half.successes ELSE @]
    /\ UNCHANGED <<cb_clock, success_count, cb_cfg, cb_entry, cb_invocations>>
    /\ UNCHANGED <<rateVars, decVars, botVars, limVars, drainVars, convVars>>

\* time.time() advances.
CbTick ==
    /\ cb_clock < MaxCbClock
    /\ cb_clock' = cb_clock + 1
    /\ UNCHANGED <<cb_state, failure_count, success_count, last_failure_time,
                   cb_cfg, cb_pc, cb_entry, cb_run, cb_invocations, cb_half>>
    /\ UNCHANGED <<rateVars, decVars, botVars, limVars, drainVars, convVars>>

(***************************************************************************)
(* WhatsAppBot: the batch coordinator                                      *)
(*                                                                         *)
(* One user.  The provider's session store hands out copies: get_session   *)
(* returns the stored session as it is then, update_session replaces the   *)
(* stored session by the caller's object.  Every await of the provider,    *)
(* the agent or the lock is a point where other coroutines run; the        *)
(* awaited call takes effect when the caller resumes.  The bot runs with   *)
(* enable_message_batching, typing_indicator and auto_read_messages on     *)
(* (the defaults) and spam_protection_enabled off; SpecBot and             *)
(* SpecService have no welcome_message and a store that does not fail in   *)
(* handle_message, SpecHandle has both.                                    *)
(***************************************************************************)
\* Bounds of the bot model.
MaxMsgs == 3
MaxBotClock == 6
MaxFaults == 2
MaxStops == 1
MaxMedia == 1
Handlers == {"h1", "h2"}

\* The inbound messages; the task a handler creates carries its message's id.
TaskIds == 1..MaxMsgs
NoTask == 0

\* asyncio.sleep(0.1): the clock of the bot model counts poll intervals.
PollInterval == 1

\* WhatsAppBotConfig, in poll intervals: the quiet period is shorter than
\* the maximum wait, and the size limit is within or beyond the messages
\* that arrive.
Configs ==
    { [ message_batch_delay_seconds |-> 2,
        max_batch_wait_seconds |-> 3,
        max_batch_size |-> n,
        welcome_message |-> FALSE ] : n \in {2, 3} }

\* The configurations of the inbound model: with and without a
\* welcome_message.
MaxInbound == 2
HandleConfigs ==
    { [ message_batch_delay_seconds |-> 2,
        max_batch_wait_seconds |-> 3,
        max_batch_size |-> 2,
        welcome_message |-> w ] : w \in BOOLEAN }

\* A session as the store creates it.
NewSession ==
    [ pending_messages |-> <<>>,
      is_processing |-> FALSE,
      last_activity |-> 0,
      last_batch_started_at |-> None,
      batch_processing_timeout_at |-> None,
      message_count |-> 0 ]

add_pending_message(s, m, now) ==
    [s EXCEPT !.pending_messages = Append(@, m), !.last_activity = now]

\* clear_pending_messages lines 76 and 88: the list it returns.
cleared_messages(s) == s.pending_messages

\* A variant of the drain that leaves the queue as it is.
clear_pending_messages_keeps(s) == s

\* clear_pending_messages line 81: the session it leaves.
clear_pending_messages(s) == [s EXCEPT !.pending_messages = <<>>]

start_batch_processing(s, now, max_wait_seconds) ==
    [s EXCEPT !.is_processing = TRUE,
              !.last_batch_started_at = now,
              !.batch_processing_timeout_at = now + max_wait_seconds]

finish_batch_processing(s) ==
    [s EXCEPT !.is_processing = FALSE,
              !.last_batch_started_at = None,
              !.batch_processing_timeout_at = None]

\* The idle state of a session's batch lifecycle.
IsIdle(s) ==
    /\ ~s.is_processing
    /\ s.last_batch_started_at = None
    /\ s.batch_processing_timeout_at = None

\* The session store of the provider: get_session hands out the stored
\* session as a value of its own, update_session replaces the stored session
\* by the caller's.
get_session == store

update_session(s) == store' = s

SeqToSet(q) == {q[i] : i \in 1..Len(q)}

\* No asyncio.Lock object.
NoLock == 0

\* _processing_locks is empty and no handler holds or awaits a lock.
NoLocks ==
    [ entry |-> NoLock,
      of |-> [h \in Handlers |-> NoLock],
      waiters |-> <<>> ]

\* The bot after construction (lines 63-77: the dictionaries are empty),
\* and the new session of the user.
BotFresh ==
    /\ b_clock = 0
    /\ store = NewSession
    /\ registry = NoTask
    /\ lock = NoLocks
    /\ nextMsg = 1
    /\ faults = 0
    /\ h_pc = [h \in Handlers |-> "idle"]
    /\ h_msg = [h \in Handlers |-> 0]
    /\ h_session = [h \in Handlers |-> NewSession]
    /\ t_pc = [t \in TaskIds |-> "none"]
    /\ t_session = [t \in TaskIds |-> NewSession]
    /\ t_batch = [t \in TaskIds |-> <<>>]
    /\ t_cancel = [t \in TaskIds |-> FALSE]
    /\ t_wake = [t \in TaskIds |-> 0]
    /\ t_i = [t \in TaskIds |-> 0]
    /\ s_pc = "idle"
    /\ s_task = NoTask
    /\ s_dirty = FALSE
    /\ s_calls = 0
    /\ appended = {}
    /\ handed = {}
    /\ noticed = {}
    /\ t_raised = [t \in TaskIds |-> FALSE]
    /\ t_cancelled = [t \in TaskIds |-> FALSE]
    /\ t_exitIdle = [t \in TaskIds |-> TRUE]
    /\ g_batchStart = None
    /\ g_flushed = FALSE
    /\ g_burst = [arrivals |-> <<>>, flushes |-> 0, inflight |-> {},
                  offline |-> FALSE]
    /\ g_media = {}
    /\ g_inbound = [welcomes |-> 0, fellBack |-> {}, direct |-> {},
                    fallbackFailed |-> {}, propagated |-> {}]

\* A bot that start_async has started, before its first message.
BotInit ==
    /\ BotFresh
    /\ running = TRUE
    /\ config \in Configs
    /\ inbound = MaxMsgs

\* A bot just constructed (line 68: _running is False).
BotIdle ==
    /\ BotFresh
    /\ running = FALSE
    /\ config = [ message_batch_delay_seconds |-> 2,
                  max_batch_wait_seconds |-> 3,
                  max_batch_size |-> 2,
                  welcome_message |-> FALSE ]
    /\ inbound = MaxMsgs

\* A bot just constructed, with few messages to come.
ServiceInit ==
    /\ BotFresh
    /\ running = FALSE
    /\ config \in {c \in Configs : c.max_batch_size = 2}
    /\ inbound = MaxInbound

\* A bot that start_async has started, with few messages to come.
HandleInit ==
    /\ BotFresh
    /\ running = TRUE
    /\ config \in HandleConfigs
    /\ inbound = MaxInbound

inboundVars == <<inbound, g_media, g_inbound>>
\* What the steps of the batching path leave alone.
restVars == <<rateVars, decVars, cbVars, limVars, drainVars, convVars, inboundVars>>
handlerVars == <<h_pc, h_msg, h_session>>
taskVars == <<t_pc, t_session, t_batch, t_cancel, t_wake, t_i>>
stopVars == <<s_pc, s_task, s_dirty, s_calls>>
flushHistory == <<appended, handed, noticed>>
taskHistory == <<t_raised, t_cancelled, t_exitIdle>>
batchHistory == <<g_batchStart, g_flushed>>

(***************************************************************************)
(* handle_message and _handle_message_with_batching                        *)
(***************************************************************************)
\* asyncio.Lock.locked(): a handler has acquired the object and not
\* released it.
Locked(g) ==
    \E h \in Handlers : lock.of[h] = g /\ \A k \in 1..Len(lock.waiters) : lock.waiters[k] # h

\* The handlers waiting in acquire() of the object, in the order of their
\* calls (Lock._waiters).
WaitersOf(g) == SelectSeq(lock.waiters, LAMBDA w : lock.of[w] = g)

\* Lines 192-193: the lock of the user, created when _processing_locks has
\* no entry.  A new object is one no handler holds or awaits.
LockOfUser ==
    IF lock.entry # NoLock
    THEN lock.entry
    ELSE CHOOSE g \in 1..(Cardinality(Handlers) + 1) :
            /\ \A h \in Handlers : lock.of[h] # g
            /\ \A g2 \in 1..(g - 1) : \E h \in Handlers : lock.of[h] = g2

\* Lock.acquire() returns at once: the object is not locked and nobody
\* waits for it.
AcquiresAtOnce(g) == ~Locked(g) /\ WaitersOf(g) = <<>>

\* Line 195, `async with`: the handler holds the lock of the user.
Acquired(h) ==
    [ entry |-> LockOfUser,
      of |-> [lock.of EXCEPT ![h] = LockOfUser],
      waiters |-> lock.waiters ]

\* Line 195, `async with`: the handler waits in acquire().
Waiting(h) ==
    [ entry |-> LockOfUser,
      of |-> [lock.of EXCEPT ![h] = LockOfUser],
      waiters |-> Append(lock.waiters, h) ]

\* A waiter of acquire() is woken and takes the object it waited for.
Woken(h) ==
    [ lock EXCEPT !.waiters = SelectSeq(@, LAMBDA w : w # h) ]

\* The end of `async with`: Lock.release().
Released(h) == [ lock EXCEPT !.of[h] = NoLock ]

\* Line 120: _processing_locks.clear().  The lock objects live on in the
\* handlers that hold or await them.
LocksCleared == [ lock EXCEPT !.entry = NoLock ]

\* Lines 195-203 once the lock is held: the message is queued on the
\* handler's session object and update_session is awaited.
Enqueue(h, s) ==
    /\ h_session' = [h_session EXCEPT ![h] = add_pending_message(s, h_msg[h], b_clock)]
    /\ appended' = appended \cup {h_msg[h]}
    /\ g_burst' = [g_burst EXCEPT !.arrivals = Append(@, b_clock)]
    /\ h_pc' = [h_pc EXCEPT ![h] = "update_203"]

\* Lines 192-203: the handler fetches (or creates) the lock of the user and
\* enters `async with`: it queues the message on session s, or waits for
\* the lock.
EnterBatching(h, s) ==
    IF AcquiresAtOnce(LockOfUser)
    THEN /\ lock' = Acquired(h)
         /\ Enqueue(h, s)
    ELSE /\ lock' = Waiting(h)
         /\ h_session' = [h_session EXCEPT ![h] = s]
         /\ h_pc' = [h_pc EXCEPT ![h] = "lock_195"]
         /\ UNCHANGED <<appended, g_burst>>

\* A flush of the user is in flight: its task has drained the queue (line
\* 310) and awaits the agent or the sending of the response (323-329); no
\* call has failed and no other message of the user is being handled.
InFlight ==
    /\ \E t \in TaskIds : t_pc[t] = "agent_323" /\ ~t_cancel[t]
    /\ faults = 0
    /\ \A h \in Handlers : h_pc[h] = "idle"

\* A webhook calls handle_message (lines 134-137) with a text message or a
\* media message (an image, a document, an audio or a video, with its id):
\* with auto_read_messages the call awaits provider.mark_message_as_read.
\* _running is not read.
HArrive(h) ==
    /\ h_pc[h] = "idle"
    /\ nextMsg <= MaxMsgs
    /\ nextMsg <= inbound
    /\ \E media \in BOOLEAN :
          /\ media => Cardinality(g_media) < MaxMedia
          /\ g_media' = IF media THEN g_media \cup {nextMsg} ELSE g_media
    /\ h_pc' = [h_pc EXCEPT ![h] = "read_137"]
    /\ h_msg' = [h_msg EXCEPT ![h] = nextMsg]
    /\ nextMsg' = nextMsg + 1
    /\ g_burst' = [g_burst EXCEPT !.inflight = IF InFlight THEN @ \cup {nextMsg} ELSE @,
                                  !.offline = @ \/ ~running]
    /\ UNCHANGED <<b_clock, store, running, registry, lock, faults, config, h_session>>
    /\ UNCHANGED <<taskVars, stopVars, flushHistory, taskHistory, batchHistory>>
    /\ UNCHANGED <<rateVars, decVars, cbVars, limVars, drainVars, convVars>>
    /\ UNCHANGED <<inbound, g_inbound>>

\* Lines 137-140: mark_message_as_read returns and get_session is awaited.
HRead(h) ==
    /\ h_pc[h] = "read_137"
    /\ h_pc' = [h_pc EXCEPT ![h] = "get_140"]
    /\ UNCHANGED <<b_clock, store, running, registry, lock, nextMsg, faults, config>>
    /\ UNCHANGED <<h_msg, h_session>>
    /\ UNCHANGED <<taskVars, stopVars, flushHistory, taskHistory, batchHistory>>
    /\ UNCHANGED <<restVars, g_burst>>

\* Line 159: the first interaction of a session, with a welcome_message
\* configured.
FirstInteraction(s) == s.message_count = 0 /\ config.welcome_message

\* Lines 140-203: get_session returns; on a first interaction the welcome
\* message is sent (line 160, awaited); otherwise the handler goes on to the
\* lock and, when it is free, queues the message.
HGetSession(h) ==
    /\ h_pc[h] = "get_140"
    /\ IF FirstInteraction(get_session)
       THEN /\ h_session' = [h_session EXCEPT ![h] = get_session]
            /\ h_pc' = [h_pc EXCEPT ![h] = "welcome_160"]
            /\ UNCHANGED <<lock, appended, g_burst>>
       ELSE EnterBatching(h, get_session)
    /\ UNCHANGED <<b_clock, store, running, registry, nextMsg, faults, config, h_msg>>
    /\ UNCHANGED <<taskVars, stopVars, handed, noticed, taskHistory, batchHistory>>
    /\ UNCHANGED restVars

\* Lines 195-203: a handler that waited for the lock gets it: the object it
\* waits for has been released and it is the first of its waiters.
CanLock(h) ==
    /\ h_pc[h] = "lock_195"
    /\ ~Locked(lock.of[h])
    /\ Head(WaitersOf(lock.of[h])) = h

HLock(h) ==
    /\ CanLock(h)
    /\ lock' = Woken(h)
    /\ Enqueue(h, h_session[h])
    /\ UNCHANGED <<b_clock, store, running, registry, nextMsg, faults, config, h_msg>>
    /\ UNCHANGED <<taskVars, stopVars, handed, noticed, taskHistory, batchHistory>>
    /\ UNCHANGED restVars

\* Lines 203-208: update_session stores the handler's session; when that
\* session is not processing, a batch is begun on it and update_session is
\* awaited again; otherwise the lock is released and the call returns.
HUpdate203(h) ==
    /\ h_pc[h] = "update_203"
    /\ update_session(h_session[h])
    /\ IF ~h_session[h].is_processing
       THEN /\ h_session' = [h_session EXCEPT ![h] =
                   start_batch_processing(@, b_clock, config.max_batch_wait_seconds)]
            /\ h_pc' = [h_pc EXCEPT ![h] = "update_208"]
            /\ g_batchStart' = b_clock
            /\ g_flushed' = FALSE
            /\ UNCHANGED <<lock, h_msg>>
       ELSE /\ h_session' = [h_session EXCEPT ![h] = NewSession]
            /\ h_pc' = [h_pc EXCEPT ![h] = "idle"]
            /\ h_msg' = [h_msg EXCEPT ![h] = 0]
            /\ lock' = Released(h)
            /\ UNCHANGED batchHistory
    /\ UNCHANGED <<b_clock, running, registry, nextMsg, faults, config>>
    /\ UNCHANGED <<taskVars, stopVars, flushHistory, taskHistory>>
    /\ UNCHANGED <<restVars, g_burst>>

\* Lines 211-212: the tracked task, if any, is cancelled (and not awaited).
CancelTracked(tc, old) ==
    IF old # NoTask /\ t_pc[old] # "done"
    THEN [tc EXCEPT ![old] = TRUE]
    ELSE tc

\* Lines 208-219: update_session stores the session; the tracked task is
\* cancelled, a new task is created and tracked, the lock is released.
HUpdate208(h) ==
    /\ h_pc[h] = "update_208"
    /\ update_session(h_session[h])
    /\ t_cancel' = CancelTracked(t_cancel, registry)
    /\ t_pc' = [t_pc EXCEPT ![h_msg[h]] = "created"]
    /\ registry' = h_msg[h]
    /\ lock' = Released(h)
    /\ h_session' = [h_session EXCEPT ![h] = NewSession]
    /\ h_pc' = [h_pc EXCEPT ![h] = "idle"]
    /\ h_msg' = [h_msg EXCEPT ![h] = 0]
    /\ UNCHANGED <<b_clock, running, nextMsg, faults, config>>
    /\ UNCHANGED <<t_session, t_batch, t_wake, t_i>>
    /\ s_dirty' = (s_dirty \/ (s_pc = "await_114" /\ registry = NoTask))
    /\ UNCHANGED <<s_pc, s_task, s_calls, flushHistory, taskHistory, batchHistory>>
    /\ UNCHANGED <<restVars, g_burst>>

\* Lines 160-165: the welcome message has been sent; the handler counts it
\* on its session and awaits update_session.
HWelcome(h) ==
    /\ h_pc[h] = "welcome_160"
    /\ g_inbound' = [g_inbound EXCEPT !.welcomes = @ + 1]
    /\ h_session' = [h_session EXCEPT ![h] = [@ EXCEPT !.message_count = @ + 1]]
    /\ h_pc' = [h_pc EXCEPT ![h] = "update_165"]
    /\ UNCHANGED <<b_clock, store, running, registry, lock, nextMsg, faults, config, h_msg>>
    /\ UNCHANGED <<taskVars, stopVars, flushHistory, taskHistory, batchHistory>>
    /\ UNCHANGED <<rateVars, decVars, cbVars, limVars, drainVars, convVars>>
    /\ UNCHANGED <<inbound, g_media, g_burst>>

\* Lines 165-203: update_session stores the handler's session; the handler
\* goes on to the lock and, when it is free, queues the message.
HUpdate165(h) ==
    /\ h_pc[h] = "update_165"
    /\ update_session(h_session[h])
    /\ EnterBatching(h, h_session[h])
    /\ UNCHANGED <<b_clock, running, registry, nextMsg, faults, config, h_msg>>
    /\ UNCHANGED <<taskVars, stopVars, handed, noticed, taskHistory, batchHistory>>
    /\ UNCHANGED restVars

\* A variant without the fallback: the exception of the batching path goes
\* straight to handle_message.
BatchingErrorReraised == [pc |-> "except_174", propagated |-> TRUE]

\* Lines 221-227, 352-353: an Exception raised inside the batching path is
\* logged and _process_single_message is awaited with the handler's message
\* and session; it awaits the typing indicator first.
BatchingErrorFallsBack == [pc |-> "typing_353", propagated |-> FALSE]

\* Lines 174-182: the except clause of handle_message.  A technical error
\* is logged and the call returns; for a user-facing one (its text names a
\* rate limit, an exceeded quota or an unavailable service and its type is
\* not a technical one, _is_user_facing_error) _send_error_message is
\* awaited, the handler still holding its message and session.
Except174(h, userFacing) ==
    IF userFacing
    THEN /\ h_pc' = [h_pc EXCEPT ![h] = "error_182"]
         /\ UNCHANGED <<h_session, h_msg>>
    ELSE /\ h_pc' = [h_pc EXCEPT ![h] = "idle"]
         /\ h_session' = [h_session EXCEPT ![h] = NewSession]
         /\ h_msg' = [h_msg EXCEPT ![h] = 0]

\* Line 203 or 208 raises (the store fails on update_session): the lock is
\* released on the way out of `async with`, and lines 221-227 take over.
HUpdateFails(h) ==
    /\ h_pc[h] \in {"update_203", "update_208"}
    /\ faults < MaxFaults
    /\ faults' = faults + 1
    /\ lock' = Released(h)
    /\ g_inbound' = [g_inbound EXCEPT
            !.fellBack = @ \cup {h_msg[h]},
            !.propagated = IF BatchingErrorFallsBack.propagated
                           THEN @ \cup {h_msg[h]} ELSE @]
    /\ IF BatchingErrorFallsBack.pc = "except_174"
       THEN \E userFacing \in BOOLEAN : Except174(h, userFacing)
       ELSE /\ h_pc' = [h_pc EXCEPT ![h] = BatchingErrorFallsBack.pc]
            /\ UNCHANGED <<h_session, h_msg>>
    /\ UNCHANGED <<b_clock, store, running, registry, nextMsg, config>>
    /\ UNCHANGED <<taskVars, stopVars, flushHistory, taskHistory, batchHistory>>
    /\ UNCHANGED <<rateVars, decVars, cbVars, limVars, drainVars, convVars>>
    /\ UNCHANGED <<inbound, g_media, g_burst>>

\* _process_single_message lines 353-361: the typing indicator has been
\* sent and the message is converted (_convert_message_to_input): a text
\* message goes to the agent at once, _process_with_agent is called with it
\* and awaited; for a media message provider.download_media is awaited
\* first (line 621).
HSingleTyping(h) ==
    /\ h_pc[h] = "typing_353"
    /\ g_inbound' = [g_inbound EXCEPT !.direct = @ \cup {h_msg[h]}]
    /\ IF h_msg[h] \in g_media
       THEN /\ h_pc' = [h_pc EXCEPT ![h] = "download_621"]
            /\ UNCHANGED handed
       ELSE /\ h_pc' = [h_pc EXCEPT ![h] = "agent_361"]
            /\ handed' = handed \cup {h_msg[h]}
    /\ UNCHANGED <<b_clock, store, running, registry, lock, nextMsg, faults, config>>
    /\ UNCHANGED <<h_msg, h_session>>
    /\ UNCHANGED <<taskVars, stopVars, appended, noticed, taskHistory, batchHistory>>
    /\ UNCHANGED <<rateVars, decVars, cbVars, limVars, drainVars, convVars>>
    /\ UNCHANGED <<inbound, g_media, g_burst>>

\* Lines 621-361: download_media returns and the file part (and the
\* caption) is appended; _process_with_agent is called with the message and
\* awaited.
HSingleDownload(h) ==
    /\ h_pc[h] = "download_621"
    /\ handed' = handed \cup {h_msg[h]}
    /\ h_pc' = [h_pc EXCEPT ![h] = "agent_361"]
    /\ UNCHANGED <<b_clock, store, running, registry, lock, nextMsg, faults, config>>
    /\ UNCHANGED <<h_msg, h_session>>
    /\ UNCHANGED <<taskVars, stopVars, appended, noticed, taskHistory, batchHistory>>
    /\ UNCHANGED <<restVars, g_burst>>

\* Line 621 raises: lines 630-632 log the failure and append the
\* placeholder part; _process_with_agent is called with the message and
\* awaited.
HSingleDownloadFails(h) ==
    /\ h_pc[h] = "download_621"
    /\ faults < MaxFaults
    /\ faults' = faults + 1
    /\ handed' = handed \cup {h_msg[h]}
    /\ h_pc' = [h_pc EXCEPT ![h] = "agent_361"]
    /\ UNCHANGED <<b_clock, store, running, registry, lock, nextMsg, config>>
    /\ UNCHANGED <<h_msg, h_session>>
    /\ UNCHANGED <<taskVars, stopVars, appended, noticed, taskHistory, batchHistory>>
    /\ UNCHANGED <<restVars, g_burst>>

\* Lines 361-364: the agent answers and _send_response is awaited.
HSingleAgent(h) ==
    /\ h_pc[h] = "agent_361"
    /\ h_pc' = [h_pc EXCEPT ![h] = "send_364"]
    /\ UNCHANGED <<b_clock, store, running, registry, lock, nextMsg, faults, config>>
    /\ UNCHANGED <<h_msg, h_session>>
    /\ UNCHANGED <<taskVars, stopVars, flushHistory, taskHistory, batchHistory>>
    /\ UNCHANGED <<restVars, g_burst>>

\* Lines 364-369: the response has been sent; the message is counted on the
\* handler's session and update_session is awaited.
HSingleSend(h) ==
    /\ h_pc[h] = "send_364"
    /\ h_session' = [h_session EXCEPT ![h] =
            [@ EXCEPT !.message_count = @ + 1, !.last_activity = b_clock]]
    /\ h_pc' = [h_pc EXCEPT ![h] = "update_369"]
    /\ UNCHANGED <<b_clock, store, running, registry, lock, nextMsg, faults, config, h_msg>>
    /\ UNCHANGED <<taskVars, stopVars, flushHistory, taskHistory, batchHistory>>
    /\ UNCHANGED <<restVars, g_burst>>

\* Lines 353-373, 228-233, 174-182: the typing indicator, the agent, the
\* send or update_session raises in the fallback; the exception is logged
\* and re-raised twice and reaches the except clause of handle_message.
HSingleFails(h) ==
    /\ h_pc[h] \in {"typing_353", "agent_361", "send_364", "update_369"}
    /\ faults < MaxFaults
    /\ faults' = faults + 1
    /\ g_inbound' = [g_inbound EXCEPT !.fallbackFailed = @ \cup {h_msg[h]},
                                      !.propagated = @ \cup {h_msg[h]}]
    /\ \E userFacing \in BOOLEAN : Except174(h, userFacing)
    /\ UNCHANGED <<b_clock, store, running, registry, lock, nextMsg, config>>
    /\ UNCHANGED <<taskVars, stopVars, flushHistory, taskHistory, batchHistory>>
    /\ UNCHANGED <<rateVars, decVars, cbVars, limVars, drainVars, convVars>>
    /\ UNCHANGED <<inbound, g_media, g_burst>>

\* Line 182, 729-733: the error message has been sent to the user (or the
\* send raised, and the exception leaves handle_message); the call is over.
HSendError(h) ==
    /\ h_pc[h] = "error_182"
    /\ \E sent \in BOOLEAN :
          noticed' = IF sent THEN noticed \cup {h_msg[h]} ELSE noticed
    /\ h_session' = [h_session EXCEPT ![h] = NewSession]
    /\ h_pc' = [h_pc EXCEPT ![h] = "idle"]
    /\ h_msg' = [h_msg EXCEPT ![h] = 0]
    /\ UNCHANGED <<b_clock, store, running, registry, lock, nextMsg, faults, config>>
    /\ UNCHANGED <<taskVars, stopVars, appended, handed, taskHistory, batchHistory>>
    /\ UNCHANGED <<restVars, g_burst>>

\* Line 369: update_session stores the handler's session and the call
\* returns.
HUpdate369(h) ==
    /\ h_pc[h] = "update_369"
    /\ update_session(h_session[h])
    /\ h_session' = [h_session EXCEPT ![h] = NewSession]
    /\ h_pc' = [h_pc EXCEPT ![h] = "idle"]
    /\ h_msg' = [h_msg EXCEPT ![h] = 0]
    /\ UNCHANGED <<b_clock, running, registry, lock, nextMsg, faults, config>>
    /\ UNCHANGED <<taskVars, stopVars, flushHistory, taskHistory, batchHistory>>
    /\ UNCHANGED <<restVars, g_burst>>

(***************************************************************************)
(* _batch_processor and _process_message_batch                             *)
(***************************************************************************)
\* finally of _batch_processor (lines 288-291): the entry of the phone
\* number is deleted, whichever task it holds.  A deletion while stop_async
\* is suspended in its loop over the registry changes the dictionary under
\* the iterator.
Exit(t, sessionAtExit) ==
    /\ t_pc' = [t_pc EXCEPT ![t] = "done"]
    /\ registry' = NoTask
    /\ s_dirty' = (s_dirty \/ (s_pc = "await_114" /\ registry # NoTask))
    /\ t_exitIdle' = [t_exitIdle EXCEPT ![t] = IsIdle(sessionAtExit)]
    /\ t_session' = [t_session EXCEPT ![t] = NewSession]
    /\ t_batch' = [t_batch EXCEPT ![t] = <<>>]

\* Line 238-239: the loop condition, then asyncio.sleep(0.1).
LoopOrExit(t) ==
    IF running
    THEN /\ t_pc' = [t_pc EXCEPT ![t] = "sleep_239"]
         /\ t_wake' = [t_wake EXCEPT ![t] = b_clock + PollInterval]
         /\ UNCHANGED <<registry, s_dirty, t_exitIdle, t_session, t_batch>>
    ELSE /\ Exit(t, store)
         /\ UNCHANGED t_wake

\* The event loop runs a created task for the first time.
TStart(t) ==
    /\ t_pc[t] = "created"
    /\ ~t_cancel[t]
    /\ LoopOrExit(t)
    /\ UNCHANGED <<b_clock, store, running, lock, nextMsg, faults, config>>
    /\ UNCHANGED <<handlerVars, t_i, t_cancel, s_pc, s_task, s_calls>>
    /\ UNCHANGED <<flushHistory, t_raised, t_cancelled, batchHistory>>
    /\ UNCHANGED <<restVars, g_burst>>

\* A task cancelled before its first step never runs its body: no finally,
\* no session write, its registry entry is left as it is.
TCancelledUnstarted(t) ==
    /\ t_pc[t] = "created"
    /\ t_cancel[t]
    /\ t_pc' = [t_pc EXCEPT ![t] = "done"]
    /\ t_cancel' = [t_cancel EXCEPT ![t] = FALSE]
    /\ t_cancelled' = [t_cancelled EXCEPT ![t] = TRUE]
    /\ t_exitIdle' = [t_exitIdle EXCEPT ![t] = IsIdle(store)]
    /\ UNCHANGED <<b_clock, store, running, registry, lock, nextMsg, faults, config>>
    /\ UNCHANGED <<handlerVars, t_i, t_session, t_batch, t_wake, stopVars>>
    /\ UNCHANGED <<flushHistory, t_raised, batchHistory>>
    /\ UNCHANGED <<restVars, g_burst>>

\* Line 256: the size test of the poll loop.
MaxBatchSizeReached(s) == Len(s.pending_messages) >= config.max_batch_size

\* Lines 239-261: the sleep is over, get_session returns the stored session,
\* and the loop either ends (no batch in progress), starts a flush (line 252
\* or 260, up to the await of the typing indicator) or goes round.
TPoll(t) ==
    /\ t_pc[t] = "sleep_239"
    /\ ~t_cancel[t]
    /\ b_clock >= t_wake[t]
    /\ IF ~get_session.is_processing
       THEN /\ Exit(t, store)
            /\ UNCHANGED <<t_wake, batchHistory, g_burst>>
       ELSE IF \/ should_process_batch(get_session, b_clock,
                       config.message_batch_delay_seconds,
                       config.max_batch_wait_seconds)
               \/ MaxBatchSizeReached(get_session)
            THEN /\ t_pc' = [t_pc EXCEPT ![t] = "typing_305"]
                 /\ t_session' = [t_session EXCEPT ![t] = get_session]
                 /\ g_flushed' = TRUE
                 /\ g_burst' = [g_burst EXCEPT !.flushes = @ + 1]
                 /\ UNCHANGED <<registry, s_dirty, t_exitIdle, t_batch, t_wake, g_batchStart>>
            ELSE /\ LoopOrExit(t)
                 /\ UNCHANGED <<batchHistory, g_burst>>
    /\ UNCHANGED <<b_clock, store, running, lock, nextMsg, faults, config>>
    /\ UNCHANGED <<handlerVars, t_i, t_cancel, s_pc, s_task, s_calls>>
    /\ UNCHANGED <<flushHistory, t_raised, t_cancelled>>
    /\ UNCHANGED restVars

\* Line 243 raises: the handler at 263-270 logs and awaits get_session again.
TGetFails(t) ==
    /\ t_pc[t] = "sleep_239"
    /\ ~t_cancel[t]
    /\ b_clock >= t_wake[t]
    /\ faults < MaxFaults
    /\ faults' = faults + 1
    /\ t_pc' = [t_pc EXCEPT ![t] = "get_270"]
    /\ t_raised' = [t_raised EXCEPT ![t] = TRUE]
    /\ UNCHANGED <<b_clock, store, running, registry, lock, nextMsg, config>>
    /\ UNCHANGED <<handlerVars, t_i, t_session, t_batch, t_cancel, t_wake, stopVars>>
    /\ UNCHANGED <<flushHistory, t_cancelled, t_exitIdle, batchHistory>>
    /\ UNCHANGED <<restVars, g_burst>>

\* Lines 270-273: get_session returns, the batch is finished on the fresh
\* session and update_session is awaited.
TCleanupGet(t) ==
    /\ t_pc[t] = "get_270"
    /\ ~t_cancel[t]
    /\ t_session' = [t_session EXCEPT ![t] = finish_batch_processing(get_session)]
    /\ t_pc' = [t_pc EXCEPT ![t] = "update_273"]
    /\ UNCHANGED <<b_clock, store, running, registry, lock, nextMsg, faults, config>>
    /\ UNCHANGED <<handlerVars, t_i, t_batch, t_cancel, t_wake, stopVars>>
    /\ UNCHANGED <<flushHistory, taskHistory, batchHistory>>
    /\ UNCHANGED <<restVars, g_burst>>

\* Line 270 raises too: lines 274-278 log the cleanup error and leave the
\* loop without a session write.
TCleanupGetFails(t) ==
    /\ t_pc[t] = "get_270"
    /\ ~t_cancel[t]
    /\ faults < MaxFaults
    /\ faults' = faults + 1
    /\ Exit(t, store)
    /\ UNCHANGED <<b_clock, store, running, lock, nextMsg, config>>
    /\ UNCHANGED <<handlerVars, t_i, t_cancel, t_wake, s_pc, s_task, s_calls>>
    /\ UNCHANGED <<flushHistory, t_raised, t_cancelled, batchHistory>>
    /\ UNCHANGED <<restVars, g_burst>>

\* Lines 273-278: update_session stores the cleaned session; break.
TCleanupUpdate(t) ==
    /\ t_pc[t] = "update_273"
    /\ ~t_cancel[t]
    /\ update_session(t_session[t])
    /\ Exit(t, t_session[t])
    /\ UNCHANGED <<b_clock, running, lock, nextMsg, faults, config>>
    /\ UNCHANGED <<handlerVars, t_i, t_cancel, t_wake, s_pc, s_task, s_calls>>
    /\ UNCHANGED <<flushHistory, t_raised, t_cancelled, batchHistory>>
    /\ UNCHANGED <<restVars, g_burst>>

\* _convert_message_batch_to_input lines 416-435: the position of the first
\* media record after position i, whose download the loop awaits, or 0 when
\* the loop ends without another await.
NextDownload(message_batch, i) ==
    LET js == {j \in (i + 1)..Len(message_batch) : message_batch[j] \in g_media}
    IN IF js = {} THEN 0 ELSE CHOOSE j \in js : \A k \in js : j <= k

\* Lines 318-323: the batch is converted from the record after position i:
\* the loop awaits the download of the next media record, or it ends and
\* _process_with_agent is called with the batch and awaited.
ConvertFrom(t, message_batch, i) ==
    LET j == NextDownload(message_batch, i)
    IN IF j = 0
       THEN /\ t_pc' = [t_pc EXCEPT ![t] = "agent_323"]
            /\ t_i' = [t_i EXCEPT ![t] = 0]
            /\ handed' = handed \cup SeqToSet(message_batch)
       ELSE /\ t_pc' = [t_pc EXCEPT ![t] = "download_435"]
            /\ t_i' = [t_i EXCEPT ![t] = j]
            /\ UNCHANGED handed

\* Lines 305-323: the typing indicator is sent; the task's session object is
\* drained and finished, and the batch is converted and goes to the agent.
TTyping(t) ==
    /\ t_pc[t] = "typing_305"
    /\ ~t_cancel[t]
    /\ t_batch' = [t_batch EXCEPT ![t] = cleared_messages(t_session[t])]
    /\ t_session' = [t_session EXCEPT ![t] =
            finish_batch_processing(clear_pending_messages(@))]
    /\ ConvertFrom(t, cleared_messages(t_session[t]), 0)
    /\ UNCHANGED <<b_clock, store, running, registry, lock, nextMsg, faults, config>>
    /\ UNCHANGED <<handlerVars, t_cancel, t_wake, stopVars>>
    /\ UNCHANGED <<appended, noticed, taskHistory, batchHistory>>
    /\ UNCHANGED <<restVars, g_burst>>

\* Lines 435-443: download_media returns, the file part (and the caption)
\* is appended and the loop goes on.
TDownload(t) ==
    /\ t_pc[t] = "download_435"
    /\ ~t_cancel[t]
    /\ ConvertFrom(t, t_batch[t], t_i[t])
    /\ UNCHANGED <<b_clock, store, running, registry, lock, nextMsg, faults, config>>
    /\ UNCHANGED <<handlerVars, t_session, t_batch, t_cancel, t_wake, stopVars>>
    /\ UNCHANGED <<appended, noticed, taskHistory, batchHistory>>
    /\ UNCHANGED <<restVars, g_burst>>

\* Line 435 raises: lines 445-447 log the failure and append the placeholder
\* part, and the loop goes on.
TDownloadFails(t) ==
    /\ t_pc[t] = "download_435"
    /\ ~t_cancel[t]
    /\ faults < MaxFaults
    /\ faults' = faults + 1
    /\ ConvertFrom(t, t_batch[t], t_i[t])
    /\ UNCHANGED <<b_clock, store, running, registry, lock, nextMsg, config>>
    /\ UNCHANGED <<handlerVars, t_session, t_batch, t_cancel, t_wake, stopVars>>
    /\ UNCHANGED <<appended, noticed, taskHistory, batchHistory>>
    /\ UNCHANGED <<restVars, g_burst>>

\* Lines 323-334: the agent answers and the response is sent; the count and
\* last_activity are set on the task's session and update_session is awaited.
TAgent(t) ==
    /\ t_pc[t] = "agent_323"
    /\ ~t_cancel[t]
    /\ t_session' = [t_session EXCEPT ![t] =
            [@ EXCEPT !.message_count = @ + Len(t_batch[t]),
                      !.last_activity = b_clock]]
    /\ t_pc' = [t_pc EXCEPT ![t] = "update_334"]
    /\ UNCHANGED <<b_clock, store, running, registry, lock, nextMsg, faults, config>>
    /\ UNCHANGED <<handlerVars, t_i, t_batch, t_cancel, t_wake, stopVars>>
    /\ UNCHANGED <<flushHistory, taskHistory, batchHistory>>
    /\ UNCHANGED <<restVars, g_burst>>

\* Lines 323-340: the agent (or the send) raises; the error is logged and
\* _send_error_message is awaited.
TAgentFails(t) ==
    /\ t_pc[t] = "agent_323"
    /\ ~t_cancel[t]
    /\ faults < MaxFaults
    /\ faults' = faults + 1
    /\ t_raised' = [t_raised EXCEPT ![t] = TRUE]
    /\ t_pc' = [t_pc EXCEPT ![t] = "error_340"]
    /\ UNCHANGED <<b_clock, store, running, registry, lock, nextMsg, config>>
    /\ UNCHANGED <<handlerVars, t_i, t_session, t_batch, t_cancel, t_wake, stopVars>>
    /\ UNCHANGED <<flushHistory, t_cancelled, t_exitIdle, batchHistory>>
    /\ UNCHANGED <<restVars, g_burst>>

\* Lines 340-344: the failure notice is sent; finally finishes the task's
\* session and awaits update_session.
TSendError(t) ==
    /\ t_pc[t] = "error_340"
    /\ ~t_cancel[t]
    /\ noticed' = noticed \cup SeqToSet(t_batch[t])
    /\ t_session' = [t_session EXCEPT ![t] = finish_batch_processing(@)]
    /\ t_pc' = [t_pc EXCEPT ![t] = "update_344"]
    /\ UNCHANGED <<b_clock, store, running, registry, lock, nextMsg, faults, config>>
    /\ UNCHANGED <<handlerVars, t_i, t_batch, t_cancel, t_wake, stopVars>>
    /\ UNCHANGED <<appended, handed, taskHistory, batchHistory>>
    /\ UNCHANGED <<restVars, g_burst>>

\* Line 340 raises as well (the provider cannot send): the exception leaves
\* the except clause through finally, which finishes the task's session and
\* awaits update_session.
TSendErrorFails(t) ==
    /\ t_pc[t] = "error_340"
    /\ ~t_cancel[t]
    /\ faults < MaxFaults
    /\ faults' = faults + 1
    /\ t_session' = [t_session EXCEPT ![t] = finish_batch_processing(@)]
    /\ t_pc' = [t_pc EXCEPT ![t] = "update_344_raise"]
    /\ UNCHANGED <<b_clock, store, running, registry, lock, nextMsg, config>>
    /\ UNCHANGED <<handlerVars, t_i, t_batch, t_cancel, t_wake, stopVars>>
    /\ UNCHANGED <<flushHistory, taskHistory, batchHistory>>
    /\ UNCHANGED <<restVars, g_burst>>

\* Lines 344, 263-270: update_session stores the task's session; the
\* exception of line 340 goes on to the handler of the poll loop, which logs
\* and awaits get_session.
TUpdate344Raise(t) ==
    /\ t_pc[t] = "update_344_raise"
    /\ ~t_cancel[t]
    /\ update_session(t_session[t])
    /\ t_pc' = [t_pc EXCEPT ![t] = "get_270"]
    /\ UNCHANGED <<b_clock, running, registry, lock, nextMsg, faults, config>>
    /\ UNCHANGED <<handlerVars, t_i, t_session, t_batch, t_cancel, t_wake, stopVars>>
    /\ UNCHANGED <<flushHistory, taskHistory, batchHistory>>
    /\ UNCHANGED <<restVars, g_burst>>

\* Lines 334-344: update_session stores the task's session; finally finishes
\* it again and awaits update_session.
TUpdate334(t) ==
    /\ t_pc[t] = "update_334"
    /\ ~t_cancel[t]
    /\ update_session(t_session[t])
    /\ t_session' = [t_session EXCEPT ![t] = finish_batch_processing(@)]
    /\ t_pc' = [t_pc EXCEPT ![t] = "update_344"]
    /\ UNCHANGED <<b_clock, running, registry, lock, nextMsg, faults, config>>
    /\ UNCHANGED <<handlerVars, t_i, t_batch, t_cancel, t_wake, stopVars>>
    /\ UNCHANGED <<flushHistory, taskHistory, batchHistory>>
    /\ UNCHANGED <<restVars, g_burst>>

\* Lines 344, 253/261, 288-291: update_session stores the task's session,
\* the flush returns (or lets a pending CancelledError go on) and the task
\* exits through finally.
TUpdate344(t) ==
    /\ t_pc[t] = "update_344"
    /\ ~t_cancel[t]
    /\ update_session(t_session[t])
    /\ Exit(t, t_session[t])
    /\ UNCHANGED <<b_clock, running, lock, nextMsg, faults, config>>
    /\ UNCHANGED <<handlerVars, t_i, t_cancel, t_wake, s_pc, s_task, s_calls>>
    /\ UNCHANGED <<flushHistory, t_raised, t_cancelled, batchHistory>>
    /\ UNCHANGED <<restVars, g_burst>>

\* CancelledError arrives at an await of the poll loop (239, 243, 270, 273)
\* or at the await inside finally (344): no handler catches it before
\* lines 280-291, so the task exits without writing the session.
TCancelledInLoop(t) ==
    /\ t_pc[t] \in {"sleep_239", "get_270", "update_273", "update_344",
                   "update_344_raise"}
    /\ t_cancel[t]
    /\ t_cancel' = [t_cancel EXCEPT ![t] = FALSE]
    /\ t_cancelled' = [t_cancelled EXCEPT ![t] = TRUE]
    /\ Exit(t, store)
    /\ UNCHANGED <<b_clock, store, running, lock, nextMsg, faults, config>>
    /\ UNCHANGED <<handlerVars, t_i, t_wake, s_pc, s_task, s_calls>>
    /\ UNCHANGED <<flushHistory, t_raised, batchHistory>>
    /\ UNCHANGED <<restVars, g_burst>>

\* CancelledError arrives at an await inside the try of
\* _process_message_batch (305-340, the download of line 435 included):
\* neither except Exception catches it, finally finishes the task's session
\* and awaits update_session.
TCancelledInFlush(t) ==
    /\ t_pc[t] \in {"typing_305", "download_435", "agent_323", "update_334",
                   "error_340"}
    /\ t_cancel[t]
    /\ t_cancel' = [t_cancel EXCEPT ![t] = FALSE]
    /\ t_cancelled' = [t_cancelled EXCEPT ![t] = TRUE]
    /\ t_session' = [t_session EXCEPT ![t] = finish_batch_processing(@)]
    /\ t_pc' = [t_pc EXCEPT ![t] = "update_344"]
    /\ t_i' = [t_i EXCEPT ![t] = 0]
    /\ UNCHANGED <<b_clock, store, running, registry, lock, nextMsg, faults, config>>
    /\ UNCHANGED <<handlerVars, t_batch, t_wake, stopVars>>
    /\ UNCHANGED <<flushHistory, t_raised, t_exitIdle, batchHistory>>
    /\ UNCHANGED <<restVars, g_burst>>

(***************************************************************************)
(* start_async and stop_async                                              *)
(***************************************************************************)
\* Lines 101-102: the provider is initialized and the flag is set.
StartAsync ==
    /\ ~running
    /\ running' = TRUE
    /\ UNCHANGED <<b_clock, store, registry, lock, nextMsg, faults, config>>
    /\ UNCHANGED <<handlerVars, taskVars, stopVars>>
    /\ UNCHANGED <<flushHistory, taskHistory, batchHistory>>
    /\ UNCHANGED <<restVars, g_burst>>

\* Line 111: the loop of stop_async skips a tracked task that is done.
TrackedLive == registry # NoTask /\ t_pc[registry] # "done"

\* Lines 107-114 (and 119-125 when no live task is tracked): the flag is
\* cleared; the tracked task is cancelled and awaited, or, with nothing to
\* await, both dictionaries are cleared and the provider is shut down.
StopBegin ==
    /\ s_pc # "await_114"
    /\ s_calls < MaxStops
    /\ s_calls' = s_calls + 1
    /\ running' = FALSE
    /\ s_dirty' = FALSE
    /\ IF TrackedLive
       THEN /\ t_cancel' = [t_cancel EXCEPT ![registry] = TRUE]
            /\ s_task' = registry
            /\ s_pc' = "await_114"
            /\ UNCHANGED <<registry, lock>>
       ELSE /\ s_pc' = "stopped"
            /\ s_task' = NoTask
            /\ registry' = NoTask
            /\ lock' = LocksCleared
            /\ UNCHANGED t_cancel
    /\ UNCHANGED <<b_clock, store, nextMsg, faults, config>>
    /\ UNCHANGED <<handlerVars, t_pc, t_session, t_batch, t_wake, t_i>>
    /\ UNCHANGED <<flushHistory, taskHistory, batchHistory>>
    /\ UNCHANGED <<restVars, g_burst>>

\* Lines 114-125: the awaited task is done; the for loop asks the iterator
\* for the next entry, which raises RuntimeError when the dictionary was
\* changed meanwhile; otherwise both dictionaries are cleared and the
\* provider is shut down.
StopResume ==
    /\ s_pc = "await_114"
    /\ t_pc[s_task] = "done"
    /\ IF s_dirty
       THEN /\ s_pc' = "RuntimeError"
            /\ UNCHANGED <<registry, lock>>
       ELSE /\ s_pc' = "stopped"
            /\ registry' = NoTask
            /\ lock' = LocksCleared
    /\ UNCHANGED <<b_clock, store, running, nextMsg, faults, config>>
    /\ UNCHANGED <<handlerVars, taskVars, s_task, s_dirty, s_calls>>
    /\ UNCHANGED <<flushHistory, taskHistory, batchHistory>>
    /\ UNCHANGED <<restVars, g_burst>>

(***************************************************************************)
(* Time                                                                    *)
(***************************************************************************)
\* A coroutine that is ready to run: the event loop runs it before any
\* time passes.  Calls of the session store return at once, the network
\* (read receipt, typing indicator, agent, send) takes any time; a
\* cancellation is delivered at once.
HandlerReady(h) ==
    \/ h_pc[h] \in {"get_140", "update_165", "update_203", "update_208", "update_369"}
    \/ CanLock(h)

TaskReady(t) ==
    \/ t_pc[t] \in {"created", "get_270", "update_273", "update_334", "update_344",
                    "update_344_raise"}
    \/ t_pc[t] = "sleep_239" /\ b_clock >= t_wake[t]
    \/ t_pc[t] \notin {"none", "done"} /\ t_cancel[t]

StopReady == s_pc = "await_114" /\ t_pc[s_task] = "done"

BotTick ==
    /\ b_clock < MaxBotClock
    /\ \A h \in Handlers : ~HandlerReady(h)
    /\ \A t \in TaskIds : ~TaskReady(t)
    /\ ~StopReady
    /\ b_clock' = b_clock + 1
    /\ UNCHANGED <<store, running, registry, lock, nextMsg, faults, config>>
    /\ UNCHANGED <<handlerVars, taskVars, stopVars>>
    /\ UNCHANGED <<flushHistory, taskHistory, batchHistory>>
    /\ UNCHANGED <<restVars, g_burst>>

(***************************************************************************)
(* RateLimiter                                                             *)
(***************************************************************************)
\* Bounds of the limiter model.
MaxLimCalls == 2
MaxLimPeriod == 3
MaxLimClock == 6
MaxAcquires == 4
LimCallers == {"a1", "a2", "a3"}

\* A variant of the limit test that admits one call too many.
AboveLimit(n, rate_limit_calls) == n > rate_limit_calls

\* acquire line 29: the window is full.
AtLimit(n, rate_limit_calls) == n >= rate_limit_calls

\* acquire lines 25-26: the calls still inside the window.
InWindow(ts, now, rate_limit_period) ==
    SelectSeq(ts, LAMBDA t : t > now - rate_limit_period)

LimInit ==
    /\ lim_clock = 0
    /\ calls = <<>>
    /\ lim_lock = "free"
    /\ lim_cfg \in [ rate_limit_calls : 1..MaxLimCalls,
                     rate_limit_period : 2..MaxLimPeriod ]
    /\ lim_pc = [c \in LimCallers |-> "idle"]
    /\ lim_wake = [c \in LimCallers |-> 0]
    /\ lim_started = 0
    /\ lim_returned = <<>>

LimIdle ==
    /\ lim_clock = 0
    /\ calls = <<>>
    /\ lim_lock = "free"
    /\ lim_cfg = [ rate_limit_calls |-> 1, rate_limit_period |-> 2 ]
    /\ lim_pc = [c \in LimCallers |-> "idle"]
    /\ lim_wake = [c \in LimCallers |-> 0]
    /\ lim_started = 0
    /\ lim_returned = <<>>

\* A caller calls acquire() and awaits the lock (line 21).
LimCall(c) ==
    /\ lim_pc[c] = "idle"
    /\ lim_started < MaxAcquires
    /\ lim_started' = lim_started + 1
    /\ lim_pc' = [lim_pc EXCEPT ![c] = "lock_21"]
    /\ UNCHANGED <<lim_clock, calls, lim_lock, lim_cfg, lim_wake, lim_returned>>
    /\ UNCHANGED <<rateVars, decVars, cbVars, botVars, drainVars, convVars>>

\* Lines 21-39: the lock is free and the waiting acquire() takes it, prunes
\* the window and either records the call and returns, or sleeps with the
\* lock held (line 34).  lim_returned keeps the times at which calls returned.
LimEnter(c) ==
    /\ lim_pc[c] = "lock_21"
    /\ lim_lock = "free"
    /\ LET now == lim_clock
           kept == InWindow(calls, now, lim_cfg.rate_limit_period)
           full == AtLimit(Len(kept), lim_cfg.rate_limit_calls)
           wait_time == lim_cfg.rate_limit_period - (now - kept[1])
       IN IF full /\ wait_time > 0
          THEN /\ calls' = kept
               /\ lim_lock' = c
               /\ lim_pc' = [lim_pc EXCEPT ![c] = "sleep_34"]
               /\ lim_wake' = [lim_wake EXCEPT ![c] = now + wait_time]
               /\ UNCHANGED lim_returned
          ELSE /\ calls' = Append(kept, now)
               /\ lim_returned' = Append(lim_returned, now)
               /\ lim_pc' = [lim_pc EXCEPT ![c] = "idle"]
               /\ UNCHANGED <<lim_lock, lim_wake>>
    /\ UNCHANGED <<lim_clock, lim_cfg, lim_started>>
    /\ UNCHANGED <<rateVars, decVars, cbVars, botVars, drainVars, convVars>>

\* Lines 34-36: the sleep is over; the caller, still inside `async with
\* self._lock`, calls acquire() again, which awaits the same lock (line 21).
LimWake(c) ==
    /\ lim_pc[c] = "sleep_34"
    /\ lim_clock >= lim_wake[c]
    /\ lim_pc' = [lim_pc EXCEPT ![c] = "lock_21"]
    /\ UNCHANGED <<lim_clock, calls, lim_lock, lim_cfg, lim_wake, lim_started,
                   lim_returned>>
    /\ UNCHANGED <<rateVars, decVars, cbVars, botVars, drainVars, convVars>>

\* time.time() advances.
LimTick ==
    /\ lim_clock < MaxLimClock
    /\ lim_clock' = lim_clock + 1
    /\ UNCHANGED <<calls, lim_lock, lim_cfg, lim_pc, lim_wake, lim_started,
                   lim_returned>>
    /\ UNCHANGED <<rateVars, decVars, cbVars, botVars, drainVars, convVars>>

(***************************************************************************)
(* WhatsAppSession: the pending queue of one session object                *)
(***************************************************************************)
\* Bounds of the queue model.
MaxDrainMsg == 2
MaxDrainAdds == 4

DrainInit ==
    /\ dr_session = NewSession
    /\ dr_added = <<>>
    /\ dr_drained = <<>>
    /\ dr_last = <<>>
    /\ dr_op = "none"

DrainIdle == DrainInit

\* add_pending_message is called with a message.  dr_added keeps every
\* message added, in order.
DrainAdd ==
    /\ Len(dr_added) < MaxDrainAdds
    /\ \E m \in 1..MaxDrainMsg :
          /\ dr_session' = add_pending_message(dr_session, m, 0)
          /\ dr_added' = Append(dr_added, m)
    /\ dr_op' = "add"
    /\ UNCHANGED <<dr_drained, dr_last>>
    /\ UNCHANGED <<rateVars, decVars, cbVars, botVars, limVars, convVars>>

\* clear_pending_messages is called.  dr_last keeps what it returned,
\* dr_drained everything drains have returned so far, dr_op whether the
\* call came right after another drain.
DrainClear ==
    /\ dr_last' = cleared_messages(dr_session)
    /\ dr_session' = clear_pending_messages(dr_session)
    /\ dr_drained' = dr_drained \o cleared_messages(dr_session)
    /\ dr_op' = IF dr_op \in {"drain", "drain_again"} THEN "drain_again" ELSE "drain"
    /\ UNCHANGED dr_added
    /\ UNCHANGED <<rateVars, decVars, cbVars, botVars, limVars, convVars>>

(***************************************************************************)
(* WhatsAppBot._convert_message_batch_to_input inside a flush              *)
(***************************************************************************)
\* Bound of the conversion model: the longest drained batch.
MaxBatchLen == 2

\* A key the stored record does not have.
Absent == "absent"

MediaTypes == {"WhatsAppImageMessage", "WhatsAppDocumentMessage",
               "WhatsAppAudioMessage", "WhatsAppVideoMessage"}

\* The stored message records (_message_to_dict writes id, type and, by
\* type, text or caption), well-formed ones and ones that lack a key or
\* carry a type the conversion does not know.
Records ==
    [ type : {"WhatsAppTextMessage", "WhatsAppImageMessage",
              "WhatsAppLocationMessage", Absent},
      id : {"m", Absent},
      text : {"hi", "", Absent} ]

\* Line 417-418: the separator before every record but the first.
Separator(i) == IF i > 1 THEN <<"---">> ELSE <<>>

\* Lines 421-424 and 427: what a round of the loop does with the record
\* before any await.  msg_data["type"] (line 421) is evaluated outside any
\* try: a record without the key raises KeyError out of the conversion.  A
\* text record appends its text, if any; a media record goes on to the
\* download; any other type appends nothing.  The text field stands for
\* the text of a text message and the caption of a media message.
ConvertRecord(msg_data) ==
    LET hasText == msg_data.text \notin {"", Absent}
    IN IF msg_data.type = Absent
       THEN [next |-> "KeyError", parts |-> <<>>]
       ELSE IF msg_data.type = "WhatsAppTextMessage"
       THEN [next |-> "round", parts |-> IF hasText THEN <<"text">> ELSE <<>>]
       ELSE IF msg_data.type \in MediaTypes
       THEN [next |-> "download", parts |-> <<>>]
       ELSE [next |-> "round", parts |-> <<>>]

\* Lines 433-447: the parts of a media record once the download is over.
\* The try covers msg_data["id"] and the download: a record without id, or
\* a download that raises, gives the placeholder part.
DownloadedParts(msg_data, downloaded) ==
    IF msg_data.id = Absent \/ ~downloaded
    THEN <<"[Media file - failed to download]">>
    ELSE <<"file">> \o (IF msg_data.text \notin {"", Absent}
                        THEN <<"caption">> ELSE <<>>)

\* _process_message_batch has drained a non-empty batch (lines 297, 310) and
\* is about to convert it.
ConvInit ==
    /\ cv_batch \in UNION {[1..n -> Records] : n \in 1..MaxBatchLen}
    /\ cv_i = 0
    /\ cv_parts = <<>>
    /\ cv_pc = "convert_318"

ConvIdle ==
    /\ cv_batch = <<>>
    /\ cv_i = 0
    /\ cv_parts = <<>>
    /\ cv_pc = "convert_318"

\* Lines 318, 405-413: the conversion begins; a batch of several messages
\* gets a header part.
ConvertBegin ==
    /\ cv_pc = "convert_318"
    /\ cv_batch # <<>>
    /\ cv_parts' = IF Len(cv_batch) > 1 THEN <<"[Batch header]">> ELSE <<>>
    /\ cv_i' = 1
    /\ cv_pc' = "loop_416"
    /\ UNCHANGED cv_batch
    /\ UNCHANGED <<rateVars, decVars, cbVars, botVars, limVars, drainVars>>

\* Lines 416-435: one round of the loop up to its first await.  An
\* exception leaves the conversion and is caught at line 336 of
\* _process_message_batch, which sends the error message (340); a media
\* record with an id awaits provider.download_media (line 435), the
\* separator already appended; a media record without id raises KeyError
\* inside the try and gets the placeholder at once.
ConvertMessage ==
    /\ cv_pc = "loop_416"
    /\ cv_i <= Len(cv_batch)
    /\ LET msg_data == cv_batch[cv_i]
           r == ConvertRecord(msg_data)
       IN IF r.next = "KeyError"
          THEN /\ cv_pc' = "error_340"
               /\ cv_parts' = cv_parts \o Separator(cv_i)
               /\ UNCHANGED cv_i
          ELSE IF r.next = "download" /\ msg_data.id # Absent
          THEN /\ cv_pc' = "download_435"
               /\ cv_parts' = cv_parts \o Separator(cv_i)
               /\ UNCHANGED cv_i
          ELSE IF r.next = "download"
          THEN /\ cv_parts' = cv_parts \o Separator(cv_i)
                                \o DownloadedParts(msg_data, FALSE)
               /\ cv_i' = cv_i + 1
               /\ UNCHANGED cv_pc
          ELSE /\ cv_parts' = cv_parts \o Separator(cv_i) \o r.parts
               /\ cv_i' = cv_i + 1
               /\ UNCHANGED cv_pc
    /\ UNCHANGED cv_batch
    /\ UNCHANGED <<rateVars, decVars, cbVars, botVars, limVars, drainVars>>

\* Lines 435-447: download_media returns or raises; the file part (and the
\* caption) or the placeholder is appended and the loop goes on.
ConvertDownload ==
    /\ cv_pc = "download_435"
    /\ \E downloaded \in BOOLEAN :
          cv_parts' = cv_parts \o DownloadedParts(cv_batch[cv_i], downloaded)
    /\ cv_i' = cv_i + 1
    /\ cv_pc' = "loop_416"
    /\ UNCHANGED cv_batch
    /\ UNCHANGED <<rateVars, decVars, cbVars, botVars, limVars, drainVars>>

\* The task is cancelled while it awaits the download (stop_async line 112
\* or a handler at line 212): CancelledError is not an Exception, so neither
\* line 445 nor line 336 catches it and it leaves the conversion and the
\* flush; the agent is not called.
ConvertCancelled ==
    /\ cv_pc = "download_435"
    /\ cv_pc' = "CancelledError"
    /\ UNCHANGED <<cv_batch, cv_i, cv_parts>>
    /\ UNCHANGED <<rateVars, decVars, cbVars, botVars, limVars, drainVars>>

\* Lines 449-451, 318-323: the loop is over; an input without parts gets a
\* placeholder part, and the input is handed to the agent.
ConvertEnd ==
    /\ cv_pc = "loop_416"
    /\ cv_i > Len(cv_batch)
    /\ cv_parts' = IF cv_parts = <<>> THEN <<"[Empty message batch]">> ELSE cv_parts
    /\ cv_pc' = "agent_323"
    /\ UNCHANGED <<cv_batch, cv_i>>
    /\ UNCHANGED <<rateVars, decVars, cbVars, botVars, limVars, drainVars>>

(***************************************************************************)
(* Specifications                                                          *)
(***************************************************************************)
InitRate == RateInit /\ DecideIdle /\ CbIdle /\ BotIdle /\ LimIdle /\ DrainIdle /\ ConvIdle
NextRate == RateCall \/ RateTick
SpecRate == InitRate /\ [][NextRate]_vars

InitDecide == RateIdle /\ DecideInit /\ CbIdle /\ BotIdle /\ LimIdle /\ DrainIdle /\ ConvIdle
NextDecide == Decide
SpecDecide == InitDecide /\ [][NextDecide]_vars

InitCB == RateIdle /\ DecideIdle /\ CbInit /\ BotIdle /\ LimIdle /\ DrainIdle /\ ConvIdle
NextCB == \E c \in Callers : CbCall(c) \/ CbSucceed(c) \/ CbFail(c) \/ CbTick
SpecCB == InitCB /\ [][NextCB]_vars

\* Batching of the messages of a started bot: no call fails and the bot is
\* not stopped.
InitBot == BotInit /\ RateIdle /\ DecideIdle /\ CbIdle /\ LimIdle /\ DrainIdle /\ ConvIdle
NextBot ==
    \/ \E h \in Handlers :
          \/ HArrive(h) \/ HRead(h) \/ HGetSession(h) \/ HLock(h)
          \/ HUpdate203(h) \/ HUpdate208(h)
    \/ \E t \in TaskIds :
          \/ TStart(t) \/ TCancelledUnstarted(t) \/ TPoll(t)
          \/ TTyping(t) \/ TDownload(t) \/ TAgent(t)
          \/ TUpdate334(t) \/ TUpdate344(t)
          \/ TCancelledInLoop(t)
    \/ BotTick
SpecBot == InitBot /\ [][NextBot]_vars

\* The failures of the provider and the agent in a background task.
NextTaskFaults ==
    \E t \in TaskIds :
        \/ TGetFails(t) \/ TCleanupGet(t) \/ TCleanupGetFails(t) \/ TCleanupUpdate(t)
        \/ TDownloadFails(t)
        \/ TAgentFails(t) \/ TSendError(t) \/ TSendErrorFails(t) \/ TUpdate344Raise(t)

\* The life of a bot: construction, start_async, messages, failures,
\* stop_async, start_async again.
InitService == ServiceInit /\ RateIdle /\ DecideIdle /\ CbIdle /\ LimIdle /\ DrainIdle /\ ConvIdle
NextService ==
    \/ NextBot
    \/ NextTaskFaults
    \/ \E t \in TaskIds : TCancelledInFlush(t)
    \/ StartAsync
    \/ StopBegin
    \/ StopResume
SpecService == InitService /\ [][NextService]_vars

InitHandle == HandleInit /\ RateIdle /\ DecideIdle /\ CbIdle /\ LimIdle /\ DrainIdle /\ ConvIdle
NextHandle ==
    \/ NextBot
    \/ \E t \in TaskIds : TCancelledInFlush(t)
    \/ \E h \in Handlers :
          \/ HWelcome(h) \/ HUpdate165(h) \/ HUpdateFails(h)
          \/ HSingleTyping(h) \/ HSingleDownload(h) \/ HSingleDownloadFails(h)
          \/ HSingleAgent(h) \/ HSingleSend(h)
          \/ HSingleFails(h) \/ HSendError(h) \/ HUpdate369(h)
SpecHandle == InitHandle /\ [][NextHandle]_vars

InitLimiter == LimInit /\ RateIdle /\ DecideIdle /\ CbIdle /\ BotIdle /\ DrainIdle /\ ConvIdle
NextLimiter ==
    \/ \E c \in LimCallers : LimCall(c) \/ LimEnter(c) \/ LimWake(c)
    \/ LimTick
SpecLimiter == InitLimiter /\ [][NextLimiter]_vars

InitDrain == DrainInit /\ RateIdle /\ DecideIdle /\ CbIdle /\ BotIdle /\ LimIdle /\ ConvIdle
NextDrain == DrainAdd \/ DrainClear
SpecDrain == InitDrain /\ [][NextDrain]_vars

InitConvert == ConvInit /\ RateIdle /\ DecideIdle /\ CbIdle /\ BotIdle /\ LimIdle /\ DrainIdle
NextConvert ==
    ConvertBegin \/ ConvertMessage \/ ConvertDownload \/ ConvertCancelled \/ ConvertEnd
SpecConvert == InitConvert /\ [][NextConvert]_vars


(***************************************************************************)
(* Claims                                                                  *)
(***************************************************************************)

\* C6: should_process_batch is the decision function of the specification:
\* false for an empty queue whatever the timestamps; otherwise true when the
\* deadline is set and reached; otherwise true exactly when the quiet period
\* has elapsed since last_activity.
C6_DecisionFunction ==
    d_ret # "none" =>
        LET empty == d_session.pending_messages = <<>>
            deadline == /\ d_session.batch_processing_timeout_at # None
                        /\ d_now >= d_session.batch_processing_timeout_at
            quiet == d_now - d_session.last_activity >= d_delay
        IN (d_ret = "True") <=> (~empty /\ (deadline \/ quiet))

\* C6 witness: the deadline forces a flush although the quiet period has not
\* elapsed.
C6_Witness ==
    /\ d_ret = "True"
    /\ d_session.batch_processing_timeout_at # None
    /\ d_now >= d_session.batch_processing_timeout_at
    /\ d_now - d_session.last_activity < d_delay

\* C7: from a session that is not rate-limited, the first
\* max_messages_per_minute calls inside one 60-second window return true and
\* the next call in that window returns false and sets is_rate_limited.
C7_AdmissionThreshold ==
    (rl_ret # "none" /\ ~rl_pre.is_rate_limited) =>
        /\ rl_ordinal <= rl_max => rl_ret = "True"
        /\ rl_ordinal = rl_max + 1 =>
              (rl_ret = "False" /\ rl_session.is_rate_limited)

\* C8: a rate-limited session has a rate_limit_until, and it lies after the
\* time the limit was triggered.
C8_LimitedHasDeadline ==
    rl_session.is_rate_limited =>
        /\ rl_session.rate_limit_until # None
        /\ rl_session.rate_limit_until > rl_trigger

\* C9: the first call made once the cooldown has elapsed after the trigger
\* returns true, clears the rate-limit state and starts a new window with a
\* count of 1.
C9_Recovery ==
    (/\ rl_ret # "none"
     /\ rl_pre.is_rate_limited
     /\ rl_now >= rl_trigger + rl_cooldown * SubSecond) =>
        /\ rl_ret = "True"
        /\ ~rl_session.is_rate_limited
        /\ rl_session.rate_limit_until = None
        /\ rl_session.messages_in_current_minute = 1
        /\ rl_session.current_minute_start = rl_now

\* C10: after failure_threshold failures in a row while CLOSED the breaker is
\* not CLOSED any more, and a call made while it is OPEN and the recovery
\* timeout has not elapsed since the last recorded failure raises
\* CircuitBreakerError and starts no operation.
C10_FailFast ==
    /\ cb_state = "CLOSED" => cb_run < cb_cfg.failure_threshold
    /\ \A c \in Callers :
          cb_entry[c].tooEarly => cb_entry[c].outcome = "CircuitBreakerError"

\* C10 witness: the breaker opened after failure_threshold failures in a row
\* and a caller has been turned away.
C10_Witness ==
    /\ cb_state = "OPEN"
    /\ cb_run >= cb_cfg.failure_threshold
    /\ cb_cfg.failure_threshold > 1
    /\ \E c \in Callers :
          cb_entry[c].tooEarly /\ cb_entry[c].outcome = "CircuitBreakerError"

\* The tasks that can still run: created and not ended, a task cancelled
\* before its first step apart (its body never runs).
LiveTasks ==
    {t \in TaskIds : /\ t_pc[t] \notin {"none", "done"}
                     /\ ~(t_pc[t] = "created" /\ t_cancel[t])}

\* The bot serves: start_async ran before the first message arrived and
\* stop_async has not been called.
Serving == running /\ s_calls = 0 /\ ~g_burst.offline

\* No coroutine is in flight and the bot serves: only the clock or a new
\* message can change the state.
Quiescent ==
    /\ \A h \in Handlers : h_pc[h] = "idle"
    /\ \A t \in TaskIds : t_pc[t] \in {"none", "done"}
    /\ Serving

\* C1: a user has at most one live batch-processor task at any time: a task
\* that is replaced has ended before its successor exists.
C1_AtMostOneLiveTask == Cardinality(LiveTasks) <= 1

\* C2: every message appended to the pending queue is handed to the agent or
\* answered with the failure notice, also when no further message arrives:
\* when nothing is left to run, no appended message is still waiting.
C2_NoStrandedMessage ==
    Quiescent => appended \subseteq (handed \cup noticed)

\* C3: a task in whose poll loop or flush an exception was raised leaves the
\* stored session idle (is_processing false, both batch timestamps null)
\* when it exits.
C3_ExceptionExitsIdle ==
    \A t \in TaskIds :
        (t_pc[t] = "done" /\ t_raised[t] /\ ~t_cancelled[t]) => t_exitIdle[t]

\* C4: stop_async, called while a task is tracked, completes: it does not
\* raise, and when it has stopped the registry is empty and the session of
\* the tracked task is not left is_processing.
C4_StopCompletes ==
    /\ s_pc # "RuntimeError"
    /\ (s_pc = "stopped" /\ s_task # NoTask) =>
           (registry = NoTask /\ ~store.is_processing)

\* C5: once a batch has begun at t0, a flush is triggered no later than
\* t0 + max_batch_wait_seconds plus one poll interval, whatever messages
\* keep arriving, as long as no call fails and the bot is not stopped.
C5_HardDeadline ==
    (g_batchStart # None /\ ~g_flushed /\ faults = 0 /\ Serving) =>
        b_clock <= g_batchStart + config.max_batch_wait_seconds + PollInterval

\* C11: while the breaker is HALF_OPEN, at most one wrapped operation is
\* started between entering HALF_OPEN (or the previous recorded result) and
\* the next recorded success or failure, also with concurrent callers.
C11_OneTrialAtATime == cb_half.trials <= 1

\* C12: success_threshold successes in a row in HALF_OPEN leave the breaker
\* CLOSED with failure_count 0; fewer successes leave it HALF_OPEN with the
\* failure_count it entered with.
C12_HalfOpenCloses ==
    /\ cb_half.successes >= cb_cfg.success_threshold =>
           (cb_state = "CLOSED" /\ failure_count = 0)
    /\ (cb_half.successes > 0 /\ cb_half.successes < cb_cfg.success_threshold) =>
           (cb_state = "HALF_OPEN" /\ failure_count = cb_half.failure_count)

\* C12 witness: the breaker closed on the second of two successes recorded
\* in HALF_OPEN, after entering HALF_OPEN with recorded failures.
C12_Witness ==
    /\ cb_cfg.success_threshold = 2
    /\ cb_half.successes = 2
    /\ cb_half.failure_count > 0
    /\ cb_state = "CLOSED"

\* C13: every acquire() eventually returns: no caller ever waits for the
\* lock while holding it itself, a state in which neither it nor any caller
\* queued behind it can ever proceed.
C13_AcquireReturns ==
    \A c \in LimCallers : ~(lim_pc[c] = "lock_21" /\ lim_lock = c)

\* The calls that returned less than rate_limit_period ago.
RecentReturns ==
    {i \in 1..Len(lim_returned) :
        lim_clock - lim_returned[i] < lim_cfg.rate_limit_period}

\* C14: at every moment at most rate_limit_calls acquire() calls have
\* returned within the last rate_limit_period, and the timestamps recorded
\* for the window are those of the calls that returned, one each.
C14_WindowBudget ==
    /\ Cardinality(RecentReturns) <= lim_cfg.rate_limit_calls
    /\ InWindow(calls, lim_clock, lim_cfg.rate_limit_period)
           = [i \in 1..Cardinality(RecentReturns) |->
                lim_returned[Len(lim_returned) - Cardinality(RecentReturns) + i]]

\* C14 witness: the window is full (two calls returned within the period)
\* while further callers are being held back.
C14_Witness ==
    /\ lim_cfg.rate_limit_calls = 2
    /\ Cardinality(RecentReturns) = 2
    /\ \E c \in LimCallers : lim_pc[c] = "sleep_34"
    /\ \E c \in LimCallers : lim_pc[c] = "lock_21"

\* C15: clear_pending_messages returns every pending message in insertion
\* order and leaves the queue empty; a second drain in a row returns the
\* empty sequence; a message added after a drain is returned by the next
\* drain: what the drains returned, followed by what is pending, is always
\* what was added.
C15_Drain ==
    /\ dr_drained \o dr_session.pending_messages = dr_added
    /\ dr_op \in {"drain", "drain_again"} => dr_session.pending_messages = <<>>
    /\ dr_op = "drain_again" => dr_last = <<>>

\* C15 witness: a message added after a first drain has been returned by the
\* next drain, which was followed by one more drain.
C15_Witness ==
    /\ dr_op = "drain_again"
    /\ Len(dr_drained) >= 3
    /\ dr_drained = dr_added

\* A queue holds messages in the order in which handle_message was called
\* for them (message ids count the calls).
InArrivalOrder(q) == \A i, j \in 1..Len(q) : i < j => q[i] < q[j]

\* C16: the stored pending queue is in arrival order, and so is every batch
\* a flush hands to the agent.
C16_ArrivalOrder ==
    /\ InArrivalOrder(store.pending_messages)
    /\ \A t \in TaskIds : InArrivalOrder(t_batch[t])

\* C17: load, enqueue / begin batch and persist are one atomic unit under
\* the per-user lock: the session a handler is about to persist at line 203
\* was loaded after every enqueue persisted before it, so it holds every
\* stored message and knows of a stored batch in progress.
C17_AtomicEnqueue ==
    \A h \in Handlers :
        h_pc[h] = "update_203" =>
            /\ SeqToSet(store.pending_messages)
                   \subseteq SeqToSet(h_session[h].pending_messages)
            /\ store.is_processing => h_session[h].is_processing

\* C18: in a burst of more than max_batch_size messages the flush that the
\* size limit triggers takes exactly max_batch_size messages and the rest
\* wait for a later flush: no batch handed to the agent is longer than
\* max_batch_size.
C18_SizeFlush ==
    \A t \in TaskIds : Len(t_batch[t]) <= config.max_batch_size

\* The messages queued so far form a quiet-period burst: fewer than
\* max_batch_size messages, each queued less than
\* message_batch_delay_seconds after the previous one, the quiet period
\* after the last one over within max_batch_wait_seconds of the first; no
\* call has failed and the bot serves.
QuietBurst ==
    LET arr == g_burst.arrivals
        k == Len(arr)
    IN /\ k >= 1
       /\ k < config.max_batch_size
       /\ \A i \in 2..k : arr[i] - arr[i - 1] < config.message_batch_delay_seconds
       /\ arr[k] + config.message_batch_delay_seconds
              <= arr[1] + config.max_batch_wait_seconds
       /\ faults = 0
       /\ Serving

\* C19: a quiet-period burst of k messages is flushed exactly once, with
\* all k messages, once message_batch_delay_seconds have passed since the
\* last message and no later than one poll interval after that.
C19_QuietPeriodFlush ==
    LET arr == g_burst.arrivals
        k == Len(arr)
        due == arr[k] + config.message_batch_delay_seconds
    IN QuietBurst =>
          /\ g_burst.flushes <= 1
          /\ g_burst.flushes = 1 => b_clock >= due
          /\ handed # {} => handed = appended
          /\ b_clock > due + PollInterval => g_burst.flushes = 1

\* C20: a stored session with a non-empty pending queue is processing, or a
\* handler is inside the enqueue critical section, or a task of the user is
\* live.
C20_PendingHasFlushAhead ==
    (store.pending_messages # <<>> /\ ~store.is_processing) =>
        \/ \E h \in Handlers : h_pc[h] \in {"update_203", "update_208"}
        \/ \E t \in TaskIds : t_pc[t] \notin {"none", "done"}
\* C21: a message that arrives while a flush of its user is in flight (the
\* queue drained, the agent or the send awaited) is not lost to that flush:
\* when no call has failed and nothing is left to run, it has been handed
\* to the agent in a later batch.
C21_InFlightArrivalFlushed ==
    (Quiescent /\ faults = 0) => g_burst.inflight \subseteq handed

\* C22: a task that ends removes only its own handle from the registry: a
\* live task of the user that has not been cancelled is the task the
\* registry holds (the exit of a cancelled predecessor does not delete its
\* successor's entry).
C22_OwnHandleOnly ==
    \A t \in TaskIds :
        (t_pc[t] \notin {"none", "done"} /\ ~t_cancel[t] /\ ~t_cancelled[t]
            /\ s_calls = 0)
        => registry = t

\* C23: when the agent or the sender raises during a flush and the task is
\* not cancelled, the step that ends the flush stores a session with
\* is_processing false and none of the drained messages in its queue, and
\* every drained message has been answered with the configured error
\* message.
C23_FailedFlush ==
    [][\A t \in TaskIds :
          (/\ t_pc[t] \in {"update_344", "update_344_raise"}
           /\ t_pc'[t] # t_pc[t]
           /\ t_raised[t] /\ ~t_cancelled'[t])
          => /\ ~store'.is_processing
             /\ SeqToSet(store'.pending_messages) \cap SeqToSet(t_batch[t]) = {}
             /\ SeqToSet(t_batch[t]) \subseteq noticed
      ]_vars

\* C24: update_rate_limiting returns true or false and never raises, and a
\* call that trips the limit sends the message down handle_message's
\* rejection path, not into the generic exception handler.
C24_NeverRaises ==
    rl_ret # "none" =>
        /\ rl_ret \in {"True", "False"}
        /\ (rl_session.is_rate_limited /\ ~rl_pre.is_rate_limited) =>
               handle_message_path(rl_ret) = "rejected_152"

\* C25: a failure recorded in HALF_OPEN moves the breaker to OPEN in that
\* step, whatever failure_count is; HALF_OPEN is entered only from OPEN, once
\* the recovery timeout has elapsed since the last failure, and with
\* success_count 0; and the breaker closes only when success_threshold
\* successes were recorded since it entered HALF_OPEN.
C25_HalfOpenFailureReopens ==
    [][/\ (cb_state = "HALF_OPEN" /\ failure_count' = failure_count + 1)
           => cb_state' = "OPEN"
       /\ (cb_state # "HALF_OPEN" /\ cb_state' = "HALF_OPEN")
           => /\ cb_state = "OPEN"
              /\ cb_clock - last_failure_time >= cb_cfg.recovery_timeout
              /\ success_count' = 0
       /\ (cb_state = "HALF_OPEN" /\ cb_state' = "CLOSED")
           => cb_half'.successes >= cb_cfg.success_threshold
      ]_vars

\* C25 witness: a failure reopened a HALF_OPEN breaker that had recorded a
\* success, and the next HALF_OPEN period has begun with success_count 0.
C25_Witness ==
    /\ cb_half.discarded > 0
    /\ cb_state = "HALF_OPEN"
    /\ success_count = 0
    /\ cb_half.trials = 1

\* C26: a malformed record in a drained batch (one without its type field,
\* for example) does not abort the flush: no conversion ends in the
\* exception handler of _process_message_batch, and a batch that reaches
\* the agent has all its records converted.
C26_MalformedRecordTolerated ==
    /\ cv_pc # "error_340"
    /\ cv_pc = "agent_323" => cv_i = Len(cv_batch) + 1

\* C27: a message whose batching path raised is handed to the agent by the
\* fallback, _process_single_message, unless the fallback raises itself;
\* and an exception reaches handle_message only when the fallback raised.
C27_FallbackProcesses ==
    /\ \A m \in g_inbound.fellBack :
          (\A h \in Handlers : h_msg[h] # m) =>
              \/ m \in g_inbound.direct /\ m \in handed
              \/ m \in g_inbound.fallbackFailed
    /\ g_inbound.propagated \subseteq g_inbound.fallbackFailed

\* C27 witness: update_session failed in the batching path of a message, and
\* the fallback handed the message to the agent and returned normally.
C27_Witness ==
    \E m \in g_inbound.fellBack :
        /\ \A h \in Handlers : h_msg[h] # m
        /\ m \in g_inbound.direct
        /\ m \in handed
        /\ m \notin g_inbound.propagated

\* C28: message_count never decreases and never exceeds the number of
\* messages handed to downstream processing: no step other than a flush or
\* an immediate processing changes it.
C28_CountIsDelivered ==
    [][/\ store'.message_count >= store.message_count
       /\ store'.message_count <= Cardinality(handed')
      ]_vars

\* C29: no message is handed to the agent twice: a message processed
\* immediately by the fallback is in no batch a flush drains, and no message
\* is in the batches of two flushes.
C29_AtMostOnce ==
    /\ \A t \in TaskIds : g_inbound.direct \cap SeqToSet(t_batch[t]) = {}
    /\ \A t1, t2 \in TaskIds :
          t1 # t2 => SeqToSet(t_batch[t1]) \cap SeqToSet(t_batch[t2]) = {}

\* C30: the welcome message is sent at most once per session.
C30_WelcomeOnce == g_inbound.welcomes <= 1

====
